---------------------------- MODULE Spec2Model ----------------------------
(***************************************************************************)
(* A model of the virtual-memory core of os4 (src/os4/src/mm): the stack   *)
(* frame allocator, the SV39 page table, logical segments and address      *)
(* spaces.  Machine words are kept as sets of bit positions so that shifts *)
(* and masks act at the width the code gives them.                         *)
(***************************************************************************)
EXTENDS Integers, Sequences, FiniteSets, TLC

VARIABLES
    FRAME_ALLOCATOR,  \* the StackFrameAllocator: [current, end, recycled]
    mem,              \* physical memory: ppn -> [pte, data] of that frame
    held,             \* the FrameTrackers a caller holds directly (the Vec v of frame_allocator_test), by ppn
    pt,               \* a PageTable [root_ppn, frames] that a caller owns directly, or None
    unmapped,         \* history: Some(<<vpn, entry>>) of a successful PageTable::unmap that was the last step or the one before a map
    panicked,         \* a panic! / failed assert! / unwrap of None halted the kernel
    last,             \* the operation that made the last step: [op, arg, ret]
    KERNEL_SPACE,     \* the kernel's MemorySet [page_table, areas], or None before it is built
    tasks,            \* the task manager's list: per app, a TaskControlBlock, None before it is created, "Exited" after
    overflow_checks,  \* the build traps on integer overflow (debug profile) or wraps (release)
    mmaps,            \* history: how many sys_mmap calls have inserted a segment
    satp,             \* the satp CSR of the hart, as the bits last written to it
    guards,           \* the guards alive: "FRAME_ALLOCATOR" (exclusive_access) and "KERNEL_SPACE" (lock)
    todo              \* the steps the running call path has not taken yet

vars == <<FRAME_ALLOCATOR, mem, held, pt, unmapped, panicked, last,
          KERNEL_SPACE, tasks, overflow_checks, mmaps, satp, guards, todo>>

\* what every operation taken as one step leaves alone
lockVars == <<guards, todo>>

\* what the allocator and page-table callers leave alone
spaceVars == <<KERNEL_SPACE, tasks, overflow_checks, mmaps, satp, lockVars>>

---------------------------------------------------------------------------
(* Bounds of the model *)

\* number of physical pages init() hands to the allocator
PoolSize == 4

\* first page number of the pool (ekernel rounded up, scaled down)
PoolLow == 2

PoolHigh == PoolLow + PoolSize

\* the page numbers whose memory the model keeps
PhysPages == 0..(PoolHigh + 1)

---------------------------------------------------------------------------
(* Option<T> *)

None == <<>>

Some(x) == <<x>>

is_some(o) == o # <<>>

unwrap(o) == o[1]

---------------------------------------------------------------------------
(* Machine words as sets of bit positions *)

\* usize on riscv64
USIZE_BITS == 64

Word == 0..(USIZE_BITS - 1)

\* the bits of a natural number below 2^30
ToBits(n) == {b \in 0..29 : (n \div (2 ^ b)) % 2 = 1}

RECURSIVE FromBits(_)
FromBits(S) ==
    IF S = {} THEN 0
    ELSE LET b == CHOOSE x \in S : TRUE IN (2 ^ b) + FromBits(S \ {b})

\* w << k and w >> k on usize
Shl(w, k) == {b + k : b \in w} \cap Word

Shr(w, k) == {b - k : b \in {x \in w : x >= k}}

---------------------------------------------------------------------------
(* frame_allocator.rs: StackFrameAllocator *)

StackFrameAllocator_new == [current |-> 0, end |-> 0, recycled |-> <<>>]

StackFrameAllocator_init(fa, l, r) == [fa EXCEPT !.current = l, !.end = r]

\* a bug: the fresh branch hands out current without advancing it
alloc_no_advance(fa) ==
    IF fa.recycled # <<>>
    THEN [fa |-> [fa EXCEPT !.recycled = SubSeq(fa.recycled, 1, Len(fa.recycled) - 1)],
          ret |-> Some(fa.recycled[Len(fa.recycled)])]
    ELSE IF fa.current = fa.end
    THEN [fa |-> fa, ret |-> None]
    ELSE [fa |-> fa, ret |-> Some(fa.current)]

\* a bug: recycled pages are reused oldest first and left on the stack
alloc_fifo(fa) ==
    IF fa.recycled # <<>>
    THEN [fa |-> [fa EXCEPT !.recycled = Tail(fa.recycled)],
          ret |-> Some(fa.recycled[1])]
    ELSE IF fa.current = fa.end
    THEN [fa |-> fa, ret |-> None]
    ELSE [fa |-> [fa EXCEPT !.current = fa.current + 1], ret |-> Some(fa.current)]

\* alloc(&mut self) -> Option<PhysPageNum>: the allocator after the call and what it returns
alloc(fa) ==
    IF fa.recycled # <<>>
    THEN [fa |-> [fa EXCEPT !.recycled = SubSeq(fa.recycled, 1, Len(fa.recycled) - 1)],
          ret |-> Some(fa.recycled[Len(fa.recycled)])]
    ELSE IF fa.current = fa.end
    THEN [fa |-> fa, ret |-> None]
    ELSE [fa |-> [fa EXCEPT !.current = fa.current + 1], ret |-> Some(fa.current)]

\* a bug: the duplicate-free check is missing
dealloc_no_dup_check(fa, ppn) ==
    IF ppn >= fa.current
    THEN [fa |-> fa, panic |-> TRUE]
    ELSE [fa |-> [fa EXCEPT !.recycled = Append(fa.recycled, ppn)], panic |-> FALSE]

\* a bug: a page that was never handed out is accepted
dealloc_no_bound_check(fa, ppn) ==
    IF \E i \in 1..Len(fa.recycled) : fa.recycled[i] = ppn
    THEN [fa |-> fa, panic |-> TRUE]
    ELSE [fa |-> [fa EXCEPT !.recycled = Append(fa.recycled, ppn)], panic |-> FALSE]

\* dealloc(&mut self, ppn): the allocator after the call and whether it panicked
dealloc(fa, ppn) ==
    IF ppn >= fa.current \/ \E i \in 1..Len(fa.recycled) : fa.recycled[i] = ppn
    THEN [fa |-> fa, panic |-> TRUE]
    ELSE [fa |-> [fa EXCEPT !.recycled = Append(fa.recycled, ppn)], panic |-> FALSE]

---------------------------------------------------------------------------
(* Physical memory.  A frame is read as an array of 512 page-table entries *)
(* or as 4096 bytes.  mem[ppn].pte keeps the entries that are not zero, as *)
(* a function from their indices to their bits; mem[ppn].data keeps the    *)
(* byte writes since the frame was last cleared, each <<src, from, len>>:  *)
(* bytes 0..len-1 of the frame are bytes from..from+len-1 of the slice     *)
(* src.  The cleared frame has neither.                                    *)

ZeroFrame == [pte |-> <<>>, data |-> <<>>]

\* ppn.get_pte_array()[idx], read
ReadPte(m, ppn, idx) == IF idx \in DOMAIN m[ppn].pte THEN m[ppn].pte[idx] ELSE {}

\* ppn.get_pte_array()[idx] = bits
WritePte(m, ppn, idx, bits) ==
    [m EXCEPT ![ppn].pte =
        IF bits = {}
        THEN [j \in (DOMAIN @) \ {idx} |-> @[j]]
        ELSE [j \in (DOMAIN @) \cup {idx} |-> IF j = idx THEN bits ELSE @[j]]]

\* ppn.get_bytes_array()[..len].copy_from_slice(&src[from..from + len])
WriteBytes(m, ppn, src, from, len) ==
    IF len = 0 THEN m
    ELSE [m EXCEPT ![ppn].data = Append(@, <<src, from, len>>)]

\* ppn.get_bytes_array()[off]: 0, or the byte <<src, i>> of a slice
RECURSIVE ByteOf(_, _)
ByteOf(log, off) ==
    IF log = <<>> THEN 0
    ELSE LET e == log[Len(log)] IN
         IF off < e[3] THEN <<e[1], e[2] + off>>
         ELSE ByteOf(SubSeq(log, 1, Len(log) - 1), off)

ReadByte(m, ppn, off) == ByteOf(m[ppn].data, off)

---------------------------------------------------------------------------
(* The kernel's global state as the operations thread it:                  *)
(* k = [fa: the FRAME_ALLOCATOR, mem: physical memory, panic: halted]      *)

Kernel == [fa |-> FRAME_ALLOCATOR, mem |-> mem, panic |-> panicked]

\* a bug: the frame is handed out with the bytes its last owner left
FrameTracker_new_no_clear(m, ppn) == m

\* FrameTracker::new(ppn): every byte of the frame is cleared
FrameTracker_new(m, ppn) == [m EXCEPT ![ppn] = ZeroFrame]

\* frame_alloc() -> Option<FrameTracker>
frame_alloc(k) ==
    LET map_new(a) ==
            IF is_some(a.ret)
            THEN [k |-> [k EXCEPT !.fa = a.fa, !.mem = FrameTracker_new(k.mem, unwrap(a.ret))],
                  ret |-> a.ret]
            ELSE [k |-> [k EXCEPT !.fa = a.fa], ret |-> None]
    IN  map_new(alloc(k.fa))

\* frame_dealloc(ppn), which Drop for FrameTracker calls
frame_dealloc(k, ppn) ==
    LET done(d) == [k EXCEPT !.fa = d.fa, !.panic = k.panic \/ d.panic]
    IN  done(dealloc(k.fa, ppn))

\* dropping a Vec of FrameTrackers: each is dropped in order
RECURSIVE drop_frames(_, _)
drop_frames(k, frames) ==
    IF frames = <<>> \/ k.panic THEN k
    ELSE drop_frames(frame_dealloc(k, Head(frames)), Tail(frames))

---------------------------------------------------------------------------
(* page_table.rs: PTEFlags and PageTableEntry *)

PTE_V == {0}
PTE_R == {1}
PTE_W == {2}
PTE_X == {3}
PTE_U == {4}
PTE_G == {5}
PTE_A == {6}
PTE_D == {7}

\* the low 44 bits: (1usize << 44) - 1
PPN_MASK == 0..43

\* a bug: the page number is shifted as if it were an address
PageTableEntry_bits_shl12(ppnbits, flags) == Shl(ppnbits, 12) \cup flags

\* PageTableEntry::new on the bits of the page number: ppn.0 << 10 | flags.bits as usize
PageTableEntry_bits(ppnbits, flags) == Shl(ppnbits, 10) \cup flags

\* PageTableEntry::new(ppn, flags)
PageTableEntry_new(ppn, flags) == PageTableEntry_bits(ToBits(ppn), flags)

\* PageTableEntry::empty()
PageTableEntry_empty == {}

\* the bits of PageTableEntry::ppn(): self.bits >> 10 & ((1usize << 44) - 1)
PageTableEntry_ppn_bits(bits) == Shr(bits, 10) \cap PPN_MASK

\* PageTableEntry::ppn()
PageTableEntry_ppn(bits) == FromBits(PageTableEntry_ppn_bits(bits))

\* PageTableEntry::flags(): PTEFlags::from_bits(self.bits as u8)
PageTableEntry_flags(bits) == bits \cap (0..7)

\* PageTableEntry::is_valid()
is_valid(bits) == (PageTableEntry_flags(bits) \cap PTE_V) # {}

readable(bits) == (PageTableEntry_flags(bits) \cap PTE_R) # {}

writable(bits) == (PageTableEntry_flags(bits) \cap PTE_W) # {}

executable(bits) == (PageTableEntry_flags(bits) \cap PTE_X) # {}

---------------------------------------------------------------------------
(* address.rs: VirtPageNum::indexes, most significant index first *)

indexes(vpn) == <<(vpn \div (512 * 512)) % 512, (vpn \div 512) % 512, vpn % 512>>

---------------------------------------------------------------------------
(* page_table.rs: PageTable = [root_ppn, frames].  An operation returns    *)
(* [k: the kernel state after it, pt: the page table after it, ret].       *)

\* PageTable::new(): frame_alloc().unwrap() gives the root
PageTable_new(k) ==
    LET with_frame(f) ==
            IF is_some(f.ret)
            THEN [k |-> f.k, pt |-> Some([root_ppn |-> unwrap(f.ret), frames |-> <<unwrap(f.ret)>>])]
            ELSE [k |-> [f.k EXCEPT !.panic = TRUE], pt |-> None]
    IN  with_frame(frame_alloc(k))

\* a bug: the mode field is left out of the token
PageTable_token_no_mode(p) == ToBits(p.root_ppn)

\* PageTable::token(): 8usize << 60 | self.root_ppn.0, as bits
PageTable_token(p) == Shl(ToBits(8), 60) \cup ToBits(p.root_ppn)

\* PageTable::from_token(satp): a view that owns no frame
PageTable_from_token(token) == [root_ppn |-> FromBits(token \cap PPN_MASK), frames |-> <<>>]

\* a bug: a new node is entered into its parent with Readable set beside Valid
RECURSIVE find_pte_create_from_readable(_, _, _, _, _)
find_pte_create_from_readable(k, p, idxs, i, ppn) ==
    LET idx == idxs[i + 1]
        descend(k2, p2) ==
            find_pte_create_from_readable(k2, p2, idxs, i + 1,
                                          PageTableEntry_ppn(ReadPte(k2.mem, ppn, idx)))
        with_frame(f) ==
            IF ~is_some(f.ret)
            THEN [k |-> [f.k EXCEPT !.panic = TRUE], pt |-> p, ret |-> None]
            ELSE descend([f.k EXCEPT !.mem = WritePte(f.k.mem, ppn, idx,
                                                      PageTableEntry_new(unwrap(f.ret), PTE_V \cup PTE_R))],
                         [p EXCEPT !.frames = Append(p.frames, unwrap(f.ret))])
    IN  IF i = 2 THEN [k |-> k, pt |-> p, ret |-> Some(<<ppn, idx>>)]
        ELSE IF ~is_valid(ReadPte(k.mem, ppn, idx)) THEN with_frame(frame_alloc(k))
        ELSE descend(k, p)

\* the loop of find_pte_create from level i at node ppn; ret is the place
\* <<node, index>> of the leaf entry
RECURSIVE find_pte_create_from(_, _, _, _, _)
find_pte_create_from(k, p, idxs, i, ppn) ==
    LET idx == idxs[i + 1]
        \* the walk goes on in the node that the entry now names
        descend(k2, p2) ==
            find_pte_create_from(k2, p2, idxs, i + 1,
                                 PageTableEntry_ppn(ReadPte(k2.mem, ppn, idx)))
        \* let frame = frame_alloc().unwrap(); *pte = PageTableEntry::new(frame.ppn, V);
        \* self.frames.push(frame)
        with_frame(f) ==
            IF ~is_some(f.ret)
            THEN [k |-> [f.k EXCEPT !.panic = TRUE], pt |-> p, ret |-> None]
            ELSE descend([f.k EXCEPT !.mem = WritePte(f.k.mem, ppn, idx,
                                                      PageTableEntry_new(unwrap(f.ret), PTE_V))],
                         [p EXCEPT !.frames = Append(p.frames, unwrap(f.ret))])
    IN  IF i = 2 THEN [k |-> k, pt |-> p, ret |-> Some(<<ppn, idx>>)]
        ELSE IF ~is_valid(ReadPte(k.mem, ppn, idx)) THEN with_frame(frame_alloc(k))
        ELSE descend(k, p)

\* PageTable::find_pte_create(vpn)
find_pte_create(k, p, vpn) == find_pte_create_from(k, p, indexes(vpn), 0, p.root_ppn)

\* a bug: the walk does not stop at an invalid entry
RECURSIVE find_pte_from_unchecked(_, _, _, _, _)
find_pte_from_unchecked(k, p, idxs, i, ppn) ==
    IF i = 2 THEN [k |-> k, pt |-> p, ret |-> Some(<<ppn, idxs[i + 1]>>)]
    ELSE find_pte_from_unchecked(k, p, idxs, i + 1,
                                 PageTableEntry_ppn(ReadPte(k.mem, ppn, idxs[i + 1])))

\* the loop of find_pte from level i at node ppn
RECURSIVE find_pte_from(_, _, _, _, _)
find_pte_from(k, p, idxs, i, ppn) ==
    IF i = 2 THEN [k |-> k, pt |-> p, ret |-> Some(<<ppn, idxs[i + 1]>>)]
    ELSE IF ~is_valid(ReadPte(k.mem, ppn, idxs[i + 1])) THEN [k |-> k, pt |-> p, ret |-> None]
    ELSE find_pte_from(k, p, idxs, i + 1, PageTableEntry_ppn(ReadPte(k.mem, ppn, idxs[i + 1])))

\* PageTable::find_pte(vpn)
find_pte(k, p, vpn) == find_pte_from(k, p, indexes(vpn), 0, p.root_ppn)

\* the leaf entry at the place <<node, index>> that a walk returned
PteAt(m, at) == ReadPte(m, at[1], at[2])

\* a bug: the Valid bit is not forced on
PageTable_map_no_valid(k, p, vpn, ppn, flags) ==
    LET found(r) ==
            IF r.k.panic THEN [k |-> r.k, pt |-> r.pt]
            ELSE IF is_valid(PteAt(r.k.mem, unwrap(r.ret)))
            THEN [k |-> [r.k EXCEPT !.panic = TRUE], pt |-> r.pt]
            ELSE [k |-> [r.k EXCEPT !.mem = WritePte(r.k.mem, unwrap(r.ret)[1], unwrap(r.ret)[2],
                                                    PageTableEntry_new(ppn, flags))],
                  pt |-> r.pt]
    IN  found(find_pte_create(k, p, vpn))

\* a bug: the leaf is overwritten without the assert
PageTable_map_no_assert(k, p, vpn, ppn, flags) ==
    LET found(r) ==
            IF r.k.panic THEN [k |-> r.k, pt |-> r.pt]
            ELSE [k |-> [r.k EXCEPT !.mem = WritePte(r.k.mem, unwrap(r.ret)[1], unwrap(r.ret)[2],
                                                    PageTableEntry_new(ppn, flags \cup PTE_V))],
                  pt |-> r.pt]
    IN  found(find_pte_create(k, p, vpn))

\* PageTable::map(vpn, ppn, flags)
PageTable_map(k, p, vpn, ppn, flags) ==
    LET found(r) ==
            IF r.k.panic THEN [k |-> r.k, pt |-> r.pt]
            ELSE IF is_valid(PteAt(r.k.mem, unwrap(r.ret)))
            THEN [k |-> [r.k EXCEPT !.panic = TRUE], pt |-> r.pt]
            ELSE [k |-> [r.k EXCEPT !.mem = WritePte(r.k.mem, unwrap(r.ret)[1], unwrap(r.ret)[2],
                                                    PageTableEntry_new(ppn, flags \cup PTE_V))],
                  pt |-> r.pt]
    IN  found(find_pte_create(k, p, vpn))

\* a bug: the leaf is checked but not cleared
PageTable_unmap_no_clear(k, p, vpn) ==
    LET found(r) ==
            IF r.k.panic THEN [k |-> r.k, pt |-> r.pt]
            ELSE IF ~is_valid(PteAt(r.k.mem, unwrap(r.ret)))
            THEN [k |-> [r.k EXCEPT !.panic = TRUE], pt |-> r.pt]
            ELSE [k |-> r.k, pt |-> r.pt]
    IN  found(find_pte_create(k, p, vpn))

\* PageTable::unmap(vpn)
PageTable_unmap(k, p, vpn) ==
    LET found(r) ==
            IF r.k.panic THEN [k |-> r.k, pt |-> r.pt]
            ELSE IF ~is_valid(PteAt(r.k.mem, unwrap(r.ret)))
            THEN [k |-> [r.k EXCEPT !.panic = TRUE], pt |-> r.pt]
            ELSE [k |-> [r.k EXCEPT !.mem = WritePte(r.k.mem, unwrap(r.ret)[1], unwrap(r.ret)[2],
                                                    PageTableEntry_empty)],
                  pt |-> r.pt]
    IN  found(find_pte_create(k, p, vpn))

\* self.find_pte(vpn).copied() on what the walk returned
copied(r) ==
    [k |-> r.k, pt |-> r.pt,
     ret |-> IF is_some(r.ret) THEN Some(PteAt(r.k.mem, unwrap(r.ret))) ELSE None]

\* a bug: translate walks with find_pte_create
PageTable_translate_creating(k, p, vpn) == copied(find_pte_create(k, p, vpn))

\* PageTable::translate(vpn): self.find_pte(vpn).copied()
PageTable_translate(k, p, vpn) == copied(find_pte(k, p, vpn))

\* dropping a PageTable drops its frames
PageTable_drop(k, p) == drop_frames(k, p.frames)

---------------------------------------------------------------------------
(* config.rs and the linker script are not among the sources; the values   *)
(* below follow their use in mm/ and are scaled to a small machine.  An    *)
(* address is <<page, offset>>: the usize page * PAGE_SIZE + offset.       *)

PAGE_SIZE == 4096

\* the page of TRAMPOLINE = usize::MAX - PAGE_SIZE + 1 as indexes() sees it:
\* the low 27 bits of the page number, all set
TRAMPOLINE_PAGE == (2 ^ 27) - 1

TRAMPOLINE == <<TRAMPOLINE_PAGE, 0>>

\* TRAP_CONTEXT = TRAMPOLINE - PAGE_SIZE
TRAP_CONTEXT == <<TRAMPOLINE_PAGE - 1, 0>>

USER_STACK_SIZE == 2 * PAGE_SIZE

KERNEL_STACK_SIZE == 2 * PAGE_SIZE

\* the kernel image, by page: .text, .rodata, .data and .bss take one page each
stext == <<1, 0>>
etext == <<2, 0>>
srodata == <<2, 0>>
erodata == <<3, 0>>
sdata == <<3, 0>>
edata == <<4, 0>>
sbss_with_stack == <<4, 0>>
ebss == <<5, 0>>
ekernel == <<5, 0>>
strampoline == <<1, 0>>

\* number of physical pages between ekernel and MEMORY_END
MemFrames == 30

MEMORY_END == <<ekernel[1] + MemFrames, 0>>

\* a usize that fits the model's integers, as an address
Addr(n) == <<n \div PAGE_SIZE, n % PAGE_SIZE>>

\* a + n on usize, n a byte count
AddrAdd(a, n) == <<a[1] + ((a[2] + n) \div PAGE_SIZE), (a[2] + n) % PAGE_SIZE>>

---------------------------------------------------------------------------
(* address.rs: VirtAddr / PhysAddr to page numbers *)

\* floor(): self.0 / PAGE_SIZE
floor(a) == a[1]

\* a bug: ceil rounds down
ceil_truncating(a) == [panic |-> FALSE, ret |-> a[1]]

\* ceil(): (self.0 - 1 + PAGE_SIZE) / PAGE_SIZE.  At address 0 the
\* subtraction overflows: a build with overflow checks panics, one without
\* wraps to usize::MAX, wraps again in the addition to PAGE_SIZE - 1, and
\* divides to 0.
ceil(a) ==
    IF a = <<0, 0>>
    THEN [panic |-> overflow_checks, ret |-> (PAGE_SIZE - 1) \div PAGE_SIZE]
    ELSE LET m == IF a[2] = 0 THEN <<a[1] - 1, PAGE_SIZE - 1>> ELSE <<a[1], a[2] - 1>>
             s == <<m[1] + 1, m[2]>>
         IN  [panic |-> FALSE, ret |-> s[1]]

\* page_offset(): self.0 & (PAGE_SIZE - 1)
page_offset(a) == a[2]

\* VirtPageNum::from(VirtAddr) / PhysPageNum::from(PhysAddr): assert_eq!(v.page_offset(), 0); v.floor()
PageNum_from(a) == [panic |-> page_offset(a) # 0, ret |-> floor(a)]

\* VirtAddr::from(VirtPageNum) / PhysAddr::from(PhysPageNum): v.0 << PAGE_SIZE_BITS
Addr_from(pn) == <<pn, 0>>

\* VPNRange::new(start, end): assert!(start <= end)
VPNRange_new(l, r) == [panic |-> l > r, ret |-> [l |-> l, r |-> r]]

---------------------------------------------------------------------------
(* memory_set.rs: MapPermission, MapType and MapArea.  A MapArea is        *)
(* [vpn_range, data_frames, map_type, map_perm]; data_frames is the        *)
(* BTreeMap from virtual page to the page of the FrameTracker it holds.    *)

MapPermission_R == {1}
MapPermission_W == {2}
MapPermission_X == {3}
MapPermission_U == {4}

\* m without key x
MapRemove(m, x) == [j \in (DOMAIN m) \ {x} |-> m[j]]

\* m with key x set to v
MapInsert(m, x, v) == [j \in (DOMAIN m) \cup {x} |-> IF j = x THEN v ELSE m[j]]

\* the values of a BTreeMap in key order
RECURSIVE MapValues(_)
MapValues(m) ==
    IF DOMAIN m = {} THEN <<>>
    ELSE LET x == CHOOSE y \in DOMAIN m : \A z \in DOMAIN m : y <= z
         IN  <<m[x]>> \o MapValues(MapRemove(m, x))

\* MapArea::new(start_va, end_va, map_type, map_perm)
MapArea_new(k, start_va, end_va, map_type, map_perm) ==
    LET ranged(c, v) ==
            [k |-> [k EXCEPT !.panic = k.panic \/ c.panic \/ v.panic],
             area |-> [vpn_range |-> v.ret, data_frames |-> <<>>,
                       map_type |-> map_type, map_perm |-> map_perm]]
    IN  ranged(ceil(end_va), VPNRange_new(floor(start_va), ceil(end_va).ret))

\* the result of a page-table operation r, for the segment a1
with_area(r, a1) == [k |-> r.k, area |-> a1, pt |-> r.pt]

\* MapArea::map_one(page_table, vpn)
map_one(k, area, p, vpn) ==
    LET \* page_table.map(vpn, ppn, pte_flags) after the match
        mapped(k1, a1, ppn) ==
            IF k1.panic THEN [k |-> k1, area |-> a1, pt |-> p]
            ELSE with_area(PageTable_map(k1, p, vpn, ppn, area.map_perm), a1)
        \* data_frames.insert(vpn, frame): a tracker it replaces is dropped
        framed(f) ==
            IF ~is_some(f.ret) THEN [k |-> [f.k EXCEPT !.panic = TRUE], area |-> area, pt |-> p]
            ELSE mapped(IF vpn \in DOMAIN area.data_frames
                        THEN frame_dealloc(f.k, area.data_frames[vpn])
                        ELSE f.k,
                        [area EXCEPT !.data_frames = MapInsert(@, vpn, unwrap(f.ret))],
                        unwrap(f.ret))
    IN  IF k.panic THEN [k |-> k, area |-> area, pt |-> p]
        ELSE IF area.map_type = "Identical" THEN mapped(k, area, vpn)
        ELSE framed(frame_alloc(k))

\* a bug: the frame is returned to the allocator but its tracker stays in data_frames
unmap_one_keeping(k, area, p, vpn) ==
    LET unmapped_from(k1) ==
            IF k1.panic THEN [k |-> k1, area |-> area, pt |-> p]
            ELSE with_area(PageTable_unmap(k1, p, vpn), area)
    IN  IF k.panic THEN [k |-> k, area |-> area, pt |-> p]
        ELSE IF area.map_type = "Framed" /\ vpn \in DOMAIN area.data_frames
        THEN unmapped_from(frame_dealloc(k, area.data_frames[vpn]))
        ELSE unmapped_from(k)

\* MapArea::unmap_one(page_table, vpn)
unmap_one(k, area, p, vpn) ==
    LET \* page_table.unmap(vpn) after the match
        unmapped_from(k1, a1) ==
            IF k1.panic THEN [k |-> k1, area |-> a1, pt |-> p]
            ELSE with_area(PageTable_unmap(k1, p, vpn), a1)
    IN  IF k.panic THEN [k |-> k, area |-> area, pt |-> p]
        ELSE IF area.map_type = "Framed" /\ vpn \in DOMAIN area.data_frames
        \* data_frames.remove(&vpn): the tracker it held is dropped
        THEN unmapped_from(frame_dealloc(k, area.data_frames[vpn]),
                           [area EXCEPT !.data_frames = MapRemove(@, vpn)])
        ELSE unmapped_from(k, area)

\* the loop of MapArea::map from vpn to the end of the range; r is the
\* state [k, area, pt] that the pages before vpn left
RECURSIVE MapArea_map_from(_, _)
MapArea_map_from(r, vpn) ==
    IF r.k.panic \/ vpn = r.area.vpn_range.r THEN r
    ELSE MapArea_map_from(map_one(r.k, r.area, r.pt, vpn), vpn + 1)

\* MapArea::map(page_table)
MapArea_map(k, area, p) == MapArea_map_from([k |-> k, area |-> area, pt |-> p], area.vpn_range.l)

\* the loop of MapArea::unmap from vpn to the end of the range
RECURSIVE MapArea_unmap_from(_, _)
MapArea_unmap_from(r, vpn) ==
    IF r.k.panic \/ vpn = r.area.vpn_range.r THEN r
    ELSE MapArea_unmap_from(unmap_one(r.k, r.area, r.pt, vpn), vpn + 1)

\* MapArea::unmap(page_table)
MapArea_unmap(k, area, p) ==
    MapArea_unmap_from([k |-> k, area |-> area, pt |-> p], area.vpn_range.l)

\* usize::min
Min(a, b) == IF a < b THEN a ELSE b

\* a bug: current_vpn is not stepped, every chunk lands in the first frame
RECURSIVE copy_data_from_no_step(_, _, _, _, _)
copy_data_from_no_step(k, p, data, start, current_vpn) ==
    LET copied_to(t) ==
            IF ~is_some(t.ret) THEN [k EXCEPT !.panic = TRUE]
            ELSE [k EXCEPT !.mem = WriteBytes(k.mem, PageTableEntry_ppn(unwrap(t.ret)), data.src,
                                              data.from + start,
                                              Min(data.len, start + PAGE_SIZE) - start)]
        step(k1) ==
            IF k1.panic \/ start + PAGE_SIZE >= data.len THEN k1
            ELSE copy_data_from_no_step(k1, p, data, start + PAGE_SIZE, current_vpn)
    IN  step(copied_to(PageTable_translate(k, p, current_vpn)))

\* the loop of MapArea::copy_data; data is the slice [src, from, len]
RECURSIVE copy_data_from(_, _, _, _, _)
copy_data_from(k, p, data, start, current_vpn) ==
    LET copied_to(t) ==
            IF ~is_some(t.ret) THEN [k EXCEPT !.panic = TRUE]
            ELSE [k EXCEPT !.mem = WriteBytes(k.mem, PageTableEntry_ppn(unwrap(t.ret)), data.src,
                                              data.from + start,
                                              Min(data.len, start + PAGE_SIZE) - start)]
        step(k1) ==
            IF k1.panic \/ start + PAGE_SIZE >= data.len THEN k1
            ELSE copy_data_from(k1, p, data, start + PAGE_SIZE, current_vpn + 1)
    IN  step(copied_to(PageTable_translate(k, p, current_vpn)))

\* MapArea::copy_data(page_table, data)
copy_data(k, area, p, data) ==
    IF k.panic THEN k
    ELSE IF area.map_type # "Framed" THEN [k EXCEPT !.panic = TRUE]
    ELSE copy_data_from(k, p, data, 0, area.vpn_range.l)

---------------------------------------------------------------------------
(* memory_set.rs: MemorySet = [page_table, areas] *)

\* MemorySet::new_bare()
MemorySet_new_bare(k) ==
    LET bare(r) ==
            [k |-> r.k,
             ms |-> IF is_some(r.pt) THEN Some([page_table |-> unwrap(r.pt), areas |-> <<>>])
                    ELSE None]
    IN  bare(PageTable_new(k))

\* MemorySet::token()
MemorySet_token(ms) == PageTable_token(ms.page_table)

\* MemorySet::activate(): the value satp::write receives
activate(ms) == PageTable_token(ms.page_table)

\* MemorySet::translate(vpn)
MemorySet_translate(k, ms, vpn) == PageTable_translate(k, ms.page_table, vpn).ret

\* MemorySet::push(map_area, data); data is None or Some of a slice
push(k, ms, map_area, data) ==
    LET \* self.areas.push(map_area)
        pushed(k1, m) ==
            IF k1.panic THEN [k |-> k1, ms |-> ms]
            ELSE [k |-> k1, ms |-> [page_table |-> m.pt, areas |-> Append(ms.areas, m.area)]]
        \* if let Some(data) = data { map_area.copy_data(..) }
        filled(m) ==
            pushed(IF is_some(data) THEN copy_data(m.k, m.area, m.pt, unwrap(data)) ELSE m.k, m)
    IN  IF k.panic THEN [k |-> k, ms |-> ms]
        ELSE filled(MapArea_map(k, map_area, ms.page_table))

\* push(map_area, data) with the [k, area] that MapArea::new returned
push_new(a, ms, data) == push(a.k, ms, a.area, data)

\* MemorySet::insert_framed_area(start_va, end_va, permission)
insert_framed_area(k, ms, start_va, end_va, permission) ==
    push_new(MapArea_new(k, start_va, end_va, "Framed", permission), ms, None)

\* MemorySet::map_trampoline()
map_trampoline(k, ms) ==
    LET mapped(r) == [k |-> r.k, ms |-> [ms EXCEPT !.page_table = r.pt]]
    IN  IF k.panic THEN [k |-> k, ms |-> ms]
        ELSE IF PageNum_from(TRAMPOLINE).panic \/ PageNum_from(strampoline).panic
        THEN [k |-> [k EXCEPT !.panic = TRUE], ms |-> ms]
        ELSE mapped(PageTable_map(k, ms.page_table, PageNum_from(TRAMPOLINE).ret,
                                  PageNum_from(strampoline).ret, PTE_R \cup PTE_X))

\* one memory_set.push(MapArea::new(.., MapType::Identical, ..), None) of
\* new_kernel, on the [k, ms] that the steps before it left
push_identical(r, start_va, end_va, permission) ==
    push_new(MapArea_new(r.k, start_va, end_va, "Identical", permission), r.ms, None)

\* a bug: .rodata is mapped writable
MemorySet_new_kernel_rodata_rw(k) ==
    LET sections(t) ==
            push_identical(
                push_identical(
                    push_identical(
                        push_identical(
                            push_identical(t, stext, etext, MapPermission_R \cup MapPermission_X),
                            srodata, erodata, MapPermission_R \cup MapPermission_W),
                        sdata, edata, MapPermission_R \cup MapPermission_W),
                    sbss_with_stack, ebss, MapPermission_R \cup MapPermission_W),
                ekernel, MEMORY_END, MapPermission_R \cup MapPermission_W)
        some(r) == [k |-> r.k, ms |-> Some(r.ms)]
        built(b) ==
            IF b.k.panic THEN [k |-> b.k, ms |-> None]
            ELSE some(sections(map_trampoline(b.k, unwrap(b.ms))))
    IN  built(MemorySet_new_bare(k))

\* MemorySet::new_kernel()
MemorySet_new_kernel(k) ==
    LET sections(t) ==
            push_identical(
                push_identical(
                    push_identical(
                        push_identical(
                            push_identical(t, stext, etext, MapPermission_R \cup MapPermission_X),
                            srodata, erodata, MapPermission_R),
                        sdata, edata, MapPermission_R \cup MapPermission_W),
                    sbss_with_stack, ebss, MapPermission_R \cup MapPermission_W),
                ekernel, MEMORY_END, MapPermission_R \cup MapPermission_W)
        some(r) == [k |-> r.k, ms |-> Some(r.ms)]
        built(b) ==
            IF b.k.panic THEN [k |-> b.k, ms |-> None]
            ELSE some(sections(map_trampoline(b.k, unwrap(b.ms))))
    IN  built(MemorySet_new_bare(k))

\* frame_remain_num() is exported by mm (mod.rs) but its body is not among
\* the sources: the frames the allocator can still hand out
frame_remain_num(k) == (k.fa.end - k.fa.current) + Len(k.fa.recycled)

\* the for loop of mmap: TRUE when find_pte returns None for some page of the range
RECURSIVE mmap_path_missing(_, _, _, _)
mmap_path_missing(k, p, vpn, r) ==
    IF vpn = r THEN FALSE
    ELSE IF ~is_some(find_pte(k, p, vpn).ret) THEN TRUE
    ELSE mmap_path_missing(k, p, vpn + 1, r)

\* a bug: only the low three bits of port are looked at
mmap_low_bits_only(k, ms, start, len, port) ==
    LET portbits == ToBits(port)
        map_perm == MapPermission_U
                    \cup (IF 0 \in portbits THEN MapPermission_R ELSE {})
                    \cup (IF 1 \in portbits THEN MapPermission_W ELSE {})
                    \cup (IF 2 \in portbits THEN MapPermission_X ELSE {})
        returned(r, ret) == [k |-> r.k, ms |-> r.ms, ret |-> ret]
        \* from the admission check on, with the [k, area] that MapArea::new returned
        admitted(a) ==
            IF a.k.panic THEN [k |-> a.k, ms |-> ms, ret |-> -1]
            ELSE IF a.area.vpn_range.l > frame_remain_num(k)
            THEN [k |-> k, ms |-> ms, ret |-> -1]
            ELSE IF mmap_path_missing(k, ms.page_table, a.area.vpn_range.l, a.area.vpn_range.r)
            THEN [k |-> k, ms |-> ms, ret |-> -1]
            ELSE returned(push(k, ms, a.area, None), 0)
    IN  IF (portbits \cap (0..2)) = {}
        THEN [k |-> k, ms |-> ms, ret |-> -1]
        ELSE IF page_offset(start) # 0
        THEN [k |-> k, ms |-> ms, ret |-> -1]
        ELSE admitted(MapArea_new(k, start, AddrAdd(start, len), "Framed", map_perm))

\* MemorySet::mmap(start, len, port); start an address, len a byte count
mmap(k, ms, start, len, port) ==
    LET portbits == ToBits(port)
        map_perm == MapPermission_U
                    \cup (IF 0 \in portbits THEN MapPermission_R ELSE {})
                    \cup (IF 1 \in portbits THEN MapPermission_W ELSE {})
                    \cup (IF 2 \in portbits THEN MapPermission_X ELSE {})
        returned(r, ret) == [k |-> r.k, ms |-> r.ms, ret |-> ret]
        \* from the admission check on, with the [k, area] that MapArea::new returned
        admitted(a) ==
            IF a.k.panic THEN [k |-> a.k, ms |-> ms, ret |-> -1]
            ELSE IF a.area.vpn_range.l > frame_remain_num(k)
            THEN [k |-> k, ms |-> ms, ret |-> -1]
            ELSE IF mmap_path_missing(k, ms.page_table, a.area.vpn_range.l, a.area.vpn_range.r)
            THEN [k |-> k, ms |-> ms, ret |-> -1]
            ELSE returned(push(k, ms, a.area, None), 0)
    IN  IF (portbits \ (0..2)) # {} \/ (portbits \cap (0..2)) = {}
        THEN [k |-> k, ms |-> ms, ret |-> -1]
        ELSE IF page_offset(start) # 0
        THEN [k |-> k, ms |-> ms, ret |-> -1]
        ELSE admitted(MapArea_new(k, start, AddrAdd(start, len), "Framed", map_perm))

\* a - b on usize: [panic, ret].  Below zero a build with overflow checks
\* panics and one without wraps to a value that is not 0, kept here as -1
usize_sub(a, b) ==
    IF a = -1 THEN [panic |-> FALSE, ret |-> -1]
    ELSE IF b > a THEN [panic |-> overflow_checks, ret |-> -1]
    ELSE [panic |-> FALSE, ret |-> a - b]

\* the for loop of munmap over self.areas from the i-th on; r is the state
\* [k, ms, remain_count] that the areas before it left
RECURSIVE munmap_from(_, _, _, _)
munmap_from(r, vpn_start, vpn_end, i) ==
    LET \* map_area.unmap(page_table); remain_count -= map_area.vpn_range.len();
        \* vpn_range.len() is not defined in address.rs: the number of pages
        unmapped_area(u, d) ==
            IF u.k.panic THEN [k |-> u.k, ms |-> r.ms, remain_count |-> r.remain_count]
            ELSE [k |-> [u.k EXCEPT !.panic = d.panic],
                  ms |-> [page_table |-> u.pt, areas |-> [r.ms.areas EXCEPT ![i] = u.area]],
                  remain_count |-> d.ret]
    IN  IF r.k.panic \/ i > Len(r.ms.areas) THEN r
        ELSE IF r.ms.areas[i].vpn_range.l >= vpn_start /\ r.ms.areas[i].vpn_range.r <= vpn_end
        THEN munmap_from(
                 unmapped_area(MapArea_unmap(r.k, r.ms.areas[i], r.ms.page_table),
                               usize_sub(r.remain_count,
                                         r.ms.areas[i].vpn_range.r - r.ms.areas[i].vpn_range.l)),
                 vpn_start, vpn_end, i + 1)
        ELSE munmap_from(r, vpn_start, vpn_end, i + 1)

\* MemorySet::munmap(start, len)
munmap(k, ms, start, len) ==
    LET returned(r) == [k |-> r.k, ms |-> r.ms, ret |-> IF r.remain_count = 0 THEN 0 ELSE -1]
        counted(c, d) ==
            IF c.panic \/ d.panic THEN [k |-> [k EXCEPT !.panic = TRUE], ms |-> ms, ret |-> -1]
            ELSE returned(munmap_from([k |-> k, ms |-> ms, remain_count |-> d.ret],
                                      floor(start), c.ret, 1))
    IN  counted(ceil(AddrAdd(start, len)),
                usize_sub(ceil(AddrAdd(start, len)).ret, floor(start)))

---------------------------------------------------------------------------
(* from_elf.  An executable image is [magic, ph, entry]: whether the magic *)
(* number is right, the program headers in table order, each               *)
(* [type, virtual_addr, mem_size, offset, file_size, flags], and the entry *)
(* point.                                                                  *)

\* a bug: the Execute permission is given by the header's read flag
RECURSIVE from_elf_headers_x_if_read(_, _, _)
from_elf_headers_x_if_read(r, elf, i) ==
    LET ph == elf.ph[i]
        map_perm == MapPermission_U
                    \cup (IF "R" \in ph.flags THEN MapPermission_R ELSE {})
                    \cup (IF "W" \in ph.flags THEN MapPermission_W ELSE {})
                    \cup (IF "R" \in ph.flags THEN MapPermission_X ELSE {})
        pushed(q, max_end_vpn) == [k |-> q.k, ms |-> q.ms, max_end_vpn |-> max_end_vpn]
        \* max_end_vpn = map_area.vpn_range.get_end(); memory_set.push(map_area, Some(..))
        loaded(a) ==
            pushed(push_new(a, r.ms,
                            Some([src |-> elf.name, from |-> ph.offset, len |-> ph.file_size])),
                   a.area.vpn_range.r)
    IN  IF r.k.panic \/ i > Len(elf.ph) THEN r
        ELSE IF ph.type = "Load"
        THEN from_elf_headers_x_if_read(
                 loaded(MapArea_new(r.k, ph.virtual_addr, AddrAdd(ph.virtual_addr, ph.mem_size),
                                    "Framed", map_perm)),
                 elf, i + 1)
        ELSE from_elf_headers_x_if_read(r, elf, i + 1)

\* the for loop of from_elf over the program headers from the i-th on; r is
\* the state [k, ms, max_end_vpn] that the headers before it left
RECURSIVE from_elf_headers(_, _, _)
from_elf_headers(r, elf, i) ==
    LET ph == elf.ph[i]
        map_perm == MapPermission_U
                    \cup (IF "R" \in ph.flags THEN MapPermission_R ELSE {})
                    \cup (IF "W" \in ph.flags THEN MapPermission_W ELSE {})
                    \cup (IF "X" \in ph.flags THEN MapPermission_X ELSE {})
        pushed(q, max_end_vpn) == [k |-> q.k, ms |-> q.ms, max_end_vpn |-> max_end_vpn]
        \* max_end_vpn = map_area.vpn_range.get_end(); memory_set.push(map_area, Some(..))
        loaded(a) ==
            pushed(push_new(a, r.ms,
                            Some([src |-> elf.name, from |-> ph.offset, len |-> ph.file_size])),
                   a.area.vpn_range.r)
    IN  IF r.k.panic \/ i > Len(elf.ph) THEN r
        ELSE IF ph.type = "Load"
        THEN from_elf_headers(
                 loaded(MapArea_new(r.k, ph.virtual_addr, AddrAdd(ph.virtual_addr, ph.mem_size),
                                    "Framed", map_perm)),
                 elf, i + 1)
        ELSE from_elf_headers(r, elf, i + 1)

\* MemorySet::from_elf(elf_data) -> (memory_set, user_stack_top, entry_point)
from_elf(k, elf) ==
    LET returned(c, user_stack_top) ==
            [k |-> c.k, ms |-> Some(c.ms), user_sp |-> user_stack_top, entry |-> elf.entry]
        \* the trap-context segment
        with_stack(s, user_stack_top) ==
            returned(insert_framed_area(s.k, s.ms, TRAP_CONTEXT, TRAMPOLINE,
                                        MapPermission_R \cup MapPermission_W),
                     user_stack_top)
        \* the user stack, one guard page above max_end_vpn
        stacked(h, user_stack_bottom) ==
            with_stack(insert_framed_area(h.k, h.ms, user_stack_bottom,
                                          AddrAdd(user_stack_bottom, USER_STACK_SIZE),
                                          MapPermission_R \cup MapPermission_W \cup MapPermission_U),
                       AddrAdd(user_stack_bottom, USER_STACK_SIZE))
        loaded(h) == stacked(h, AddrAdd(Addr_from(h.max_end_vpn), PAGE_SIZE))
        \* ElfFile::new(elf_data).unwrap() and assert_eq!(magic, ..), then the headers
        parsed(t) ==
            loaded(from_elf_headers([k |-> [t.k EXCEPT !.panic = t.k.panic \/ ~elf.magic],
                                     ms |-> t.ms, max_end_vpn |-> 0],
                                    elf, 1))
        built(b) ==
            IF b.k.panic THEN [k |-> b.k, ms |-> None, user_sp |-> <<0, 0>>, entry |-> elf.entry]
            ELSE parsed(map_trampoline(b.k, unwrap(b.ms)))
    IN  built(MemorySet_new_bare(k))

\* dropping the areas of a MemorySet from the i-th on: each MapArea drops its
\* data_frames in key order
RECURSIVE drop_areas(_, _, _)
drop_areas(k, areas, i) ==
    IF k.panic \/ i > Len(areas) THEN k
    ELSE drop_areas(drop_frames(k, MapValues(areas[i].data_frames)), areas, i + 1)

\* a bug: the page-table nodes are released and the segments' frames are not
MemorySet_drop_nodes_only(k, ms) == PageTable_drop(k, ms.page_table)

\* dropping a MemorySet: its fields in declaration order, page_table then areas
MemorySet_drop(k, ms) == drop_areas(PageTable_drop(k, ms.page_table), ms.areas, 1)

---------------------------------------------------------------------------
(* task.rs: TaskControlBlock::new.  config::kernel_stack_position is not   *)
(* among the sources: kernel stacks lie below the trampoline, one guard    *)
(* page apart.                                                             *)

\* kernel_stack_position(app_id) -> (bottom, top), by page
kernel_stack_position(app_id) ==
    LET top == TRAMPOLINE_PAGE - app_id * ((KERNEL_STACK_SIZE \div PAGE_SIZE) + 1)
    IN  <<Addr_from(top - (KERNEL_STACK_SIZE \div PAGE_SIZE)), Addr_from(top)>>

\* the bytes of a TrapContext (trap/ is not among the sources): 32 general
\* registers, sstatus, sepc, kernel_satp, kernel_sp, trap_handler
TrapContextSize == 37 * 8

\* TaskControlBlock::new(elf_data, app_id) with the kernel space ks:
\* [k, ks, tcb], tcb = [memory_set, trap_cx_ppn, base_size]
TaskControlBlock_new(k, ks, elf, app_id) ==
    LET \* *trap_cx = TrapContext::app_init_context(..)
        stacked(i, e, trap_cx_ppn) ==
            IF i.k.panic THEN [k |-> i.k, ks |-> i.ms, tcb |-> None]
            ELSE [k |-> [i.k EXCEPT !.mem = WriteBytes(i.k.mem, trap_cx_ppn, "TrapContext", 0,
                                                       TrapContextSize)],
                  ks |-> i.ms,
                  tcb |-> Some([memory_set |-> unwrap(e.ms), trap_cx_ppn |-> trap_cx_ppn,
                                base_size |-> e.user_sp])]
        \* KERNEL_SPACE.lock().insert_framed_area(kernel_stack_bottom, kernel_stack_top, R | W)
        translated(e, t) ==
            IF ~is_some(t) THEN [k |-> [e.k EXCEPT !.panic = TRUE], ks |-> ks, tcb |-> None]
            ELSE stacked(insert_framed_area(e.k, ks, kernel_stack_position(app_id)[1],
                                            kernel_stack_position(app_id)[2],
                                            MapPermission_R \cup MapPermission_W),
                         e, PageTableEntry_ppn(unwrap(t)))
        \* memory_set.translate(VirtAddr::from(TRAP_CONTEXT).into()).unwrap().ppn()
        built(e) ==
            IF e.k.panic \/ PageNum_from(TRAP_CONTEXT).panic
            THEN [k |-> [e.k EXCEPT !.panic = TRUE], ks |-> ks, tcb |-> None]
            ELSE translated(e, MemorySet_translate(e.k, unwrap(e.ms), PageNum_from(TRAP_CONTEXT).ret))
    IN  built(from_elf(k, elf))

---------------------------------------------------------------------------
(* AllocSpec: a caller that allocates frames, holds the trackers and drops *)
(* them (frame_allocator_test), and stray dealloc calls on pages that no   *)
(* live tracker covers.                                                    *)

Range(s) == {s[i] : i \in 1..Len(s)}

\* the pages handed out and not yet returned
Allocated(fa) == {p \in 0..(fa.current - 1) : p \notin Range(fa.recycled)} \ (0..(PoolLow - 1))

ZeroMem == [p \in PhysPages |-> ZeroFrame]

AllocInit ==
    /\ FRAME_ALLOCATOR = StackFrameAllocator_init(StackFrameAllocator_new, PoolLow, PoolHigh)
    /\ mem = ZeroMem
    /\ held = <<>>
    /\ pt = None
    /\ unmapped = None
    /\ panicked = FALSE
    /\ last = [op |-> "init", arg |-> <<PoolLow, PoolHigh>>, ret |-> None]
    /\ KERNEL_SPACE = None
    /\ tasks = <<>>
    /\ overflow_checks = FALSE
    /\ mmaps = 0
    /\ satp = {}
    /\ guards = {}
    /\ todo = <<>>

\* v without its i-th element
RemoveAt(s, i) == SubSeq(s, 1, i - 1) \o SubSeq(s, i + 1, Len(s))

\* let frame = frame_alloc(); v.push(frame) when it is Some
FrameAlloc ==
    /\ ~panicked
    /\ LET r == frame_alloc(Kernel) IN
        /\ FRAME_ALLOCATOR' = r.k.fa
        /\ mem' = r.k.mem
        /\ panicked' = r.k.panic
        /\ held' = IF is_some(r.ret) THEN Append(held, unwrap(r.ret)) ELSE held
        /\ UNCHANGED <<pt, unmapped>>
        /\ last' = [op |-> "frame_alloc", arg |-> <<>>, ret |-> r.ret]
        /\ UNCHANGED spaceVars

\* the i-th FrameTracker of v is dropped
FrameDrop(i) ==
    /\ ~panicked
    /\ i \in 1..Len(held)
    /\ LET k2 == frame_dealloc(Kernel, held[i]) IN
        /\ FRAME_ALLOCATOR' = k2.fa
        /\ mem' = k2.mem
        /\ panicked' = k2.panic
        /\ held' = RemoveAt(held, i)
        /\ UNCHANGED <<pt, unmapped>>
        /\ last' = [op |-> "drop", arg |-> <<held[i]>>, ret |-> None]
        /\ UNCHANGED spaceVars

\* the holder of the i-th FrameTracker fills its frame, once, through
\* ppn.get_bytes_array() and, as a node, sets the last entry of ppn.get_pte_array()
FrameWrite(i) ==
    /\ ~panicked
    /\ i \in 1..Len(held)
    /\ mem[held[i]] = ZeroFrame
    /\ mem' = WritePte(WriteBytes(mem, held[i], "owner", 0, PAGE_SIZE), held[i], 511, PTE_V)
    /\ last' = [op |-> "write", arg |-> <<held[i]>>, ret |-> None]
    /\ UNCHANGED <<FRAME_ALLOCATOR, held, pt, unmapped, panicked>>
    /\ UNCHANGED spaceVars

\* dealloc(ppn) on a page of the pool that no live FrameTracker covers
StrayDealloc(ppn) ==
    /\ ~panicked
    /\ ppn \notin Range(held)
    /\ LET k2 == frame_dealloc(Kernel, ppn) IN
        /\ FRAME_ALLOCATOR' = k2.fa
        /\ mem' = k2.mem
        /\ panicked' = k2.panic
        /\ UNCHANGED <<held, pt, unmapped>>
        /\ last' = [op |-> "dealloc", arg |-> <<ppn>>, ret |-> None]
        /\ UNCHANGED spaceVars

AllocNext ==
    \/ FrameAlloc
    \/ \E i \in 1..PoolSize : FrameDrop(i)
    \/ \E i \in 1..PoolSize : FrameWrite(i)
    \/ \E ppn \in PoolLow..PoolHigh : StrayDealloc(ppn)

AllocSpec == AllocInit /\ [][AllocNext]_vars

---------------------------------------------------------------------------
(* PtSpec: a caller that owns one PageTable and calls new, map, unmap and  *)
(* translate on it, translate on a from_token view of it, and drops it.    *)

\* virtual pages that share the leaf table (0, 1), only the middle table
\* (512) and only the root (512 * 512) with page 0
PtVpns == {0, 1, 512, 512 * 512}

\* the physical pages map is asked to install
PtPpns == {PoolHigh + 1, PoolHigh + 2}

\* the flag sets map is called with: one without V, one with it
PtFlags == {PTE_R \cup PTE_X, PTE_V \cup PTE_R \cup PTE_W \cup PTE_U}

\* the <<ppn, flags>> pairs map is called with
PtMapArgs ==
    {<<PoolHigh + 1, PTE_R \cup PTE_X>>,
     <<PoolHigh + 2, PTE_V \cup PTE_R \cup PTE_W \cup PTE_U>>,
     <<PoolHigh + 2, PTE_R \cup PTE_X>>}

PtInit == AllocInit

\* the caller creates its page table once, right after the allocator is set up
PtNew ==
    /\ ~panicked
    /\ pt = None
    /\ last.op = "init"
    /\ LET r == PageTable_new(Kernel) IN
        /\ FRAME_ALLOCATOR' = r.k.fa
        /\ mem' = r.k.mem
        /\ panicked' = r.k.panic
        /\ pt' = r.pt
        /\ last' = [op |-> "new", arg |-> <<>>, ret |-> None]
        /\ UNCHANGED spaceVars
    /\ unmapped' = None
    /\ UNCHANGED held

PtMap(vpn, ppn, flags) ==
    /\ ~panicked
    /\ pt # None
    /\ LET r == PageTable_map(Kernel, unwrap(pt), vpn, ppn, flags) IN
        /\ FRAME_ALLOCATOR' = r.k.fa
        /\ mem' = r.k.mem
        /\ panicked' = r.k.panic
        /\ pt' = Some(r.pt)
        /\ last' = [op |-> "map", arg |-> <<vpn, ppn, flags>>, ret |-> None]
        /\ UNCHANGED spaceVars
    /\ unmapped' = IF last.op = "unmap" THEN unmapped ELSE None
    /\ UNCHANGED held

PtUnmap(vpn) ==
    /\ ~panicked
    /\ pt # None
    /\ LET r == PageTable_unmap(Kernel, unwrap(pt), vpn)
           before == PageTable_translate(Kernel, unwrap(pt), vpn).ret
       IN
        /\ FRAME_ALLOCATOR' = r.k.fa
        /\ mem' = r.k.mem
        /\ panicked' = r.k.panic
        /\ pt' = Some(r.pt)
        /\ unmapped' = IF r.k.panic THEN None ELSE Some(<<vpn, unwrap(before)>>)
        /\ last' = [op |-> "unmap", arg |-> <<vpn>>, ret |-> None]
        /\ UNCHANGED spaceVars
    /\ UNCHANGED held

PtTranslate(vpn) ==
    /\ ~panicked
    /\ pt # None
    /\ LET r == PageTable_translate(Kernel, unwrap(pt), vpn) IN
        /\ FRAME_ALLOCATOR' = r.k.fa
        /\ mem' = r.k.mem
        /\ panicked' = r.k.panic
        /\ pt' = Some(r.pt)
        /\ last' = [op |-> "translate", arg |-> <<vpn>>, ret |-> r.ret]
        /\ UNCHANGED spaceVars
    /\ unmapped' = None
    /\ UNCHANGED held

\* PageTable::from_token(pt.token()).translate(vpn); the view is dropped afterwards
PtTranslateView(vpn) ==
    /\ ~panicked
    /\ pt # None
    /\ LET view == PageTable_from_token(PageTable_token(unwrap(pt)))
           r == PageTable_translate(Kernel, view, vpn)
           k2 == PageTable_drop(r.k, r.pt)
       IN
        /\ FRAME_ALLOCATOR' = k2.fa
        /\ mem' = k2.mem
        /\ panicked' = k2.panic
        /\ last' = [op |-> "translate_view", arg |-> <<vpn>>, ret |-> r.ret]
        /\ UNCHANGED spaceVars
    /\ unmapped' = None
    /\ UNCHANGED <<held, pt>>

PtDrop ==
    /\ ~panicked
    /\ pt # None
    /\ LET k2 == PageTable_drop(Kernel, unwrap(pt)) IN
        /\ FRAME_ALLOCATOR' = k2.fa
        /\ mem' = k2.mem
        /\ panicked' = k2.panic
    /\ pt' = None
    /\ unmapped' = None
    /\ last' = [op |-> "drop_table", arg |-> <<>>, ret |-> None]
    /\ UNCHANGED spaceVars
    /\ UNCHANGED held

PtNext ==
    \/ PtNew
    \/ \E vpn \in PtVpns, a \in PtMapArgs : PtMap(vpn, a[1], a[2])
    \/ \E vpn \in PtVpns : PtUnmap(vpn)
    \/ \E vpn \in PtVpns : PtTranslate(vpn)
    \/ \E vpn \in PtVpns : PtTranslateView(vpn)
    \/ PtDrop

PtSpec == PtInit /\ [][PtNext]_vars

---------------------------------------------------------------------------
(* PteSpec: a caller building page-table entries and reading them back *)

\* the bits of the page numbers handed to PageTableEntry::new: low bits, the
\* top bit of a 44-bit page number and the two bits above it
PtePpnBits == SUBSET {0, 9, 43, 44, 45}

\* the flag sets handed to PageTableEntry::new
PteFlagSets == SUBSET (PTE_V \cup PTE_R \cup PTE_A \cup PTE_D)

PteInit == AllocInit

\* PageTableEntry::new(ppn, flags), then ppn(), flags() and is_valid() of the entry
PteNew(ppnbits, flags) ==
    /\ last' = [op |-> "pte_new", arg |-> <<ppnbits, flags>>,
                ret |-> Some([bits |-> PageTableEntry_bits(ppnbits, flags),
                              ppn |-> PageTableEntry_ppn_bits(PageTableEntry_bits(ppnbits, flags)),
                              flags |-> PageTableEntry_flags(PageTableEntry_bits(ppnbits, flags)),
                              is_valid |-> is_valid(PageTableEntry_bits(ppnbits, flags))])]
    /\ UNCHANGED <<FRAME_ALLOCATOR, mem, held, pt, unmapped, panicked>>
    /\ UNCHANGED spaceVars

PteNext == \E ppnbits \in PtePpnBits, flags \in PteFlagSets : PteNew(ppnbits, flags)

PteSpec == PteInit /\ [][PteNext]_vars

---------------------------------------------------------------------------
(* address.rs on machine words.  VirtAddr and PhysAddr, and VirtPageNum     *)
(* and PhysPageNum, wrap a usize and have the same conversions; a word is   *)
(* the set of its bits.  An arithmetic result is [overflow, ret]: whether   *)
(* the usize operation left the range, and the wrapped value.               *)

\* the width of the page offset: 1 << PAGE_SIZE_BITS = PAGE_SIZE
PAGE_SIZE_BITS == 12

\* self.0 - 1
WordDec(w) ==
    IF w = {} THEN [overflow |-> TRUE, ret |-> Word]
    ELSE LET low == CHOOSE b \in w : \A c \in w : b <= c
         IN  [overflow |-> FALSE, ret |-> (w \ {low}) \cup (0..(low - 1))]

\* w + (1 << k)
WordAddBit(w, k) ==
    IF (k..(USIZE_BITS - 1)) \subseteq w THEN [overflow |-> TRUE, ret |-> w \ (k..(USIZE_BITS - 1))]
    ELSE LET free == CHOOSE b \in (k..(USIZE_BITS - 1)) \ w :
                         \A c \in (k..(USIZE_BITS - 1)) \ w : b <= c
         IN  [overflow |-> FALSE, ret |-> (w \ (k..(free - 1))) \cup {free}]

\* floor(): self.0 / PAGE_SIZE
Addr_floor(w) == Shr(w, PAGE_SIZE_BITS)

\* ceil(): (self.0 - 1 + PAGE_SIZE) / PAGE_SIZE; an overflow panics in a
\* build with overflow checks
Addr_ceil(w) ==
    LET added(d, s) ==
            [overflow |-> d.overflow \/ s.overflow,
             panic |-> (d.overflow \/ s.overflow) /\ overflow_checks,
             ret |-> Shr(s.ret, PAGE_SIZE_BITS)]
    IN  added(WordDec(w), WordAddBit(WordDec(w).ret, PAGE_SIZE_BITS))

\* page_offset(): self.0 & (PAGE_SIZE - 1)
Addr_page_offset(w) == w \cap (0..(PAGE_SIZE_BITS - 1))

\* From<VirtAddr> for VirtPageNum: assert_eq!(v.page_offset(), 0); v.floor()
PageNum_from_Addr(w) == [panic |-> Addr_page_offset(w) # {}, ret |-> Addr_floor(w)]

\* a bug: the page number is shifted one bit short
Addr_from_PageNum_shl11(w) == Shl(w, PAGE_SIZE_BITS - 1)

\* From<VirtPageNum> for VirtAddr: v.0 << PAGE_SIZE_BITS
Addr_from_PageNum(w) == Shl(w, PAGE_SIZE_BITS)

\* the addresses converted: offsets 0, 1, 2048 and 4095 in pages 0, 1 and
\* 2^26, also above 2^63 and in the last page of the address range
AddrWords ==
    {s \cup t : s \in SUBSET {0, PAGE_SIZE_BITS - 1, PAGE_SIZE_BITS, 38},
                t \in {{}, {USIZE_BITS - 1}, PAGE_SIZE_BITS..(USIZE_BITS - 1)}}

\* the page numbers converted: inside the 27 bits of a virtual page number,
\* the 44 bits of a physical one, and above them
PageWords == SUBSET {0, 9, 26, 43, 51, 52, USIZE_BITS - 1}

AddrInit ==
    /\ FRAME_ALLOCATOR = StackFrameAllocator_new
    /\ mem = ZeroMem
    /\ held = <<>>
    /\ pt = None
    /\ unmapped = None
    /\ panicked = FALSE
    /\ last = [op |-> "boot", arg |-> <<>>, ret |-> None]
    /\ KERNEL_SPACE = None
    /\ tasks = <<>>
    /\ overflow_checks \in BOOLEAN
    /\ mmaps = 0
    /\ satp = {}
    /\ guards = {}
    /\ todo = <<>>

\* an address is rounded down and up, its offset is read, and it is
\* converted to a page number without rounding
AddrToPage(w) ==
    /\ last' = [op |-> "addr", arg |-> <<w>>,
                ret |-> Some([floor |-> Addr_floor(w), ceil |-> Addr_ceil(w),
                              page_offset |-> Addr_page_offset(w),
                              into |-> PageNum_from_Addr(w)])]
    /\ UNCHANGED <<FRAME_ALLOCATOR, mem, held, pt, unmapped, panicked>>
    /\ UNCHANGED spaceVars

\* a page number is converted to an address and back
PageToAddr(w) ==
    /\ last' = [op |-> "page", arg |-> <<w>>,
                ret |-> Some([addr |-> Addr_from_PageNum(w),
                              floor |-> Addr_floor(Addr_from_PageNum(w)),
                              page_offset |-> Addr_page_offset(Addr_from_PageNum(w)),
                              into |-> PageNum_from_Addr(Addr_from_PageNum(w))])]
    /\ UNCHANGED <<FRAME_ALLOCATOR, mem, held, pt, unmapped, panicked>>
    /\ UNCHANGED spaceVars

AddrNext ==
    \/ \E w \in AddrWords : AddrToPage(w)
    \/ \E w \in PageWords : PageToAddr(w)

AddrSpec == AddrInit /\ [][AddrNext]_vars

---------------------------------------------------------------------------
(* LockSpec: the call paths of the core taken one guard event at a time.   *)
(* An event is <<kind, what>>: "acquire" and "release" of the guard of     *)
(* FRAME_ALLOCATOR (exclusive_access) or KERNEL_SPACE (lock), "alloc" and  *)
(* "dealloc" on the allocator, "call" of another path, and "use" of a      *)
(* value.  A guard that is a temporary lives to the end of its statement.  *)

\* a bug: the guard of the kernel stack insertion is kept in a local, so it
\* is still alive when the kernel token is read
TaskControlBlock_new_events_guard_kept ==
    <<<<"call", "frame_alloc">>, <<"use", "unwrap">>,
      <<"acquire", "KERNEL_SPACE">>, <<"call", "frame_alloc">>, <<"use", "unwrap">>,
      <<"acquire", "KERNEL_SPACE">>, <<"use", "token">>, <<"use", "app_init_context">>,
      <<"release", "KERNEL_SPACE">>>>

\* TaskControlBlock::new: from_elf takes frames; KERNEL_SPACE.lock()
\* .insert_framed_area(..) takes frames under the lock; the trap context is
\* filled in with KERNEL_SPACE.lock().token()
TaskControlBlock_new_events ==
    <<<<"call", "frame_alloc">>, <<"use", "unwrap">>,
      <<"acquire", "KERNEL_SPACE">>, <<"call", "frame_alloc">>, <<"use", "unwrap">>,
      <<"release", "KERNEL_SPACE">>,
      <<"acquire", "KERNEL_SPACE">>, <<"use", "token">>, <<"use", "app_init_context">>,
      <<"release", "KERNEL_SPACE">>>>

\* the events of a call path, in program order
EventsOf(path) ==
    CASE path = "frame_alloc" ->
            \* FRAME_ALLOCATOR.exclusive_access().alloc().map(FrameTracker::new)
            <<<<"acquire", "FRAME_ALLOCATOR">>, <<"alloc", "FrameTracker::new">>,
              <<"release", "FRAME_ALLOCATOR">>>>
      [] path = "FrameTracker::drop" ->
            \* frame_dealloc(self.ppn): FRAME_ALLOCATOR.exclusive_access().dealloc(ppn)
            <<<<"acquire", "FRAME_ALLOCATOR">>, <<"dealloc", "ppn">>,
              <<"release", "FRAME_ALLOCATOR">>>>
      [] path = "unmap_one" ->
            \* self.data_frames.remove(&vpn); page_table.unmap(vpn)
            <<<<"call", "FrameTracker::drop">>, <<"use", "PageTable::unmap">>>>
      [] path = "MemorySet::drop" ->
            \* the trackers of the areas, then those of the page table
            <<<<"call", "FrameTracker::drop">>, <<"call", "FrameTracker::drop">>>>
      [] path = "TaskControlBlock::new" -> TaskControlBlock_new_events
      [] path = "remap_test" ->
            \* let mut kernel_space = KERNEL_SPACE.lock(); three translate calls
            <<<<"acquire", "KERNEL_SPACE">>, <<"use", "translate">>,
              <<"release", "KERNEL_SPACE">>>>

LockPaths ==
    {"frame_alloc", "FrameTracker::drop", "unmap_one", "MemorySet::drop",
     "TaskControlBlock::new", "remap_test"}

LkInit == AllocInit

\* a call path starts; one that drops trackers needs trackers to drop
LkCall(path) ==
    /\ ~panicked
    /\ todo = <<>>
    /\ path \in {"FrameTracker::drop", "unmap_one"} => Len(held) >= 1
    /\ path = "MemorySet::drop" => Len(held) >= 2
    /\ todo' = EventsOf(path)
    /\ last' = [op |-> "call", arg |-> <<path>>, ret |-> None]
    /\ UNCHANGED <<FRAME_ALLOCATOR, mem, held, pt, unmapped, panicked, guards>>
    /\ UNCHANGED <<KERNEL_SPACE, tasks, overflow_checks, mmaps, satp>>

\* exclusive_access() / lock(): a second exclusive borrow of the allocator
\* panics, a second lock() of the spin mutex never returns
LkAcquire ==
    /\ ~panicked
    /\ todo # <<>>
    /\ Head(todo)[1] = "acquire"
    /\ IF Head(todo)[2] \in guards
       THEN /\ Head(todo)[2] = "FRAME_ALLOCATOR"
            /\ panicked' = TRUE
            /\ UNCHANGED <<guards, todo>>
       ELSE /\ guards' = guards \cup {Head(todo)[2]}
            /\ todo' = Tail(todo)
            /\ UNCHANGED panicked
    /\ last' = [op |-> "acquire", arg |-> <<Head(todo)[2]>>, ret |-> None]
    /\ UNCHANGED <<FRAME_ALLOCATOR, mem, held, pt, unmapped>>
    /\ UNCHANGED <<KERNEL_SPACE, tasks, overflow_checks, mmaps, satp>>

\* the guard is dropped at the end of its statement; the value the
\* statement computed is passed on
LkRelease ==
    /\ ~panicked
    /\ todo # <<>>
    /\ Head(todo)[1] = "release"
    /\ guards' = guards \ {Head(todo)[2]}
    /\ todo' = Tail(todo)
    /\ last' = [op |-> "release", arg |-> <<Head(todo)[2]>>, ret |-> last.ret]
    /\ UNCHANGED <<FRAME_ALLOCATOR, mem, held, pt, unmapped, panicked>>
    /\ UNCHANGED <<KERNEL_SPACE, tasks, overflow_checks, mmaps, satp>>

\* .alloc().map(FrameTracker::new); the caller keeps the tracker
LkAlloc ==
    /\ ~panicked
    /\ todo # <<>>
    /\ Head(todo)[1] = "alloc"
    /\ LET r == frame_alloc(Kernel) IN
        /\ FRAME_ALLOCATOR' = r.k.fa
        /\ mem' = r.k.mem
        /\ panicked' = r.k.panic
        /\ held' = IF is_some(r.ret) THEN Append(held, unwrap(r.ret)) ELSE held
        /\ last' = [op |-> "frame_alloc", arg |-> <<>>, ret |-> r.ret]
    /\ todo' = Tail(todo)
    /\ UNCHANGED <<pt, unmapped, guards>>
    /\ UNCHANGED <<KERNEL_SPACE, tasks, overflow_checks, mmaps, satp>>

\* .dealloc(ppn) of the tracker that is dropped, the i-th one held
LkDealloc(i) ==
    /\ ~panicked
    /\ todo # <<>>
    /\ Head(todo)[1] = "dealloc"
    /\ i \in 1..Len(held)
    /\ LET k2 == frame_dealloc(Kernel, held[i]) IN
        /\ FRAME_ALLOCATOR' = k2.fa
        /\ mem' = k2.mem
        /\ panicked' = k2.panic
    /\ held' = RemoveAt(held, i)
    /\ last' = [op |-> "drop", arg |-> <<held[i]>>, ret |-> None]
    /\ todo' = Tail(todo)
    /\ UNCHANGED <<pt, unmapped, guards>>
    /\ UNCHANGED <<KERNEL_SPACE, tasks, overflow_checks, mmaps, satp>>

\* a path calls another: its events come first
LkEnter ==
    /\ ~panicked
    /\ todo # <<>>
    /\ Head(todo)[1] = "call"
    /\ todo' = EventsOf(Head(todo)[2]) \o Tail(todo)
    /\ last' = [op |-> "call", arg |-> <<Head(todo)[2]>>, ret |-> None]
    /\ UNCHANGED <<FRAME_ALLOCATOR, mem, held, pt, unmapped, panicked, guards>>
    /\ UNCHANGED <<KERNEL_SPACE, tasks, overflow_checks, mmaps, satp>>

\* a value is used; frame_alloc().unwrap() halts the kernel on None
LkUse ==
    /\ ~panicked
    /\ todo # <<>>
    /\ Head(todo)[1] = "use"
    /\ panicked' = (Head(todo)[2] = "unwrap" /\ last.ret = None)
    /\ todo' = Tail(todo)
    /\ last' = [op |-> "use", arg |-> <<Head(todo)[2]>>, ret |-> None]
    /\ UNCHANGED <<FRAME_ALLOCATOR, mem, held, pt, unmapped, guards>>
    /\ UNCHANGED <<KERNEL_SPACE, tasks, overflow_checks, mmaps, satp>>

LkNext ==
    \/ \E path \in LockPaths : LkCall(path)
    \/ LkAcquire
    \/ LkRelease
    \/ LkAlloc
    \/ \E i \in 1..PoolSize : LkDealloc(i)
    \/ LkEnter
    \/ LkUse

LockSpec == LkInit /\ [][LkNext]_vars

---------------------------------------------------------------------------
(* Spec: the kernel after mm::init, the task manager creating the tasks    *)
(* from their images, tasks calling sys_mmap and sys_munmap, and tasks     *)
(* exiting.  task/mod.rs is not among the sources: tasks are created in    *)
(* the order of their app ids and the address space of a task is dropped   *)
(* when it exits.                                                          *)

\* the app ids of the images the loader holds: 0..get_num_app() - 1
AppIds == {0, 1}

\* sys_mmap calls that insert a segment, over all tasks
MaxMmaps == 2

\* a text segment of two pages at address 0, its second page partly filled
ElfA ==
    [name |-> "ElfA", magic |-> TRUE, entry |-> <<0, 0>>,
     ph |-> <<[type |-> "Load", virtual_addr |-> <<0, 0>>, mem_size |-> PAGE_SIZE + 100,
               offset |-> 64, file_size |-> PAGE_SIZE + 50, flags |-> {"R", "X"}]>>]

\* a data segment listed before the text segment that lies below it, a
\* header that is not loadable and a segment with no bytes in the file; the
\* image sits in the second leaf table
ElfB ==
    [name |-> "ElfB", magic |-> TRUE, entry |-> <<512, 16>>,
     ph |-> <<[type |-> "Other", virtual_addr |-> <<0, 0>>, mem_size |-> 0,
               offset |-> 0, file_size |-> 0, flags |-> {}],
              [type |-> "Load", virtual_addr |-> <<513, 0>>, mem_size |-> 10,
               offset |-> PAGE_SIZE + 100, file_size |-> 0, flags |-> {"R", "W"}],
              [type |-> "Load", virtual_addr |-> <<516, 0>>, mem_size |-> 200,
               offset |-> PAGE_SIZE, file_size |-> 100, flags |-> {"R", "W"}],
              [type |-> "Load", virtual_addr |-> <<512, 0>>, mem_size |-> PAGE_SIZE,
               offset |-> 0, file_size |-> PAGE_SIZE, flags |-> {"R", "X"}]>>]

\* not an ELF image
ElfBad == [name |-> "ElfBad", magic |-> FALSE, entry |-> <<0, 0>>, ph |-> <<>>]

Elfs == {ElfA, ElfB, ElfBad}

\* the <<start, len, port>> a task passes to sys_mmap: pages above the
\* stack of ElfA, a range larger than the pool, a page of the text segment,
\* the empty range at 0, an unaligned start, and ports that are not allowed
MmapArgs ==
    {<<Addr(5 * PAGE_SIZE), PAGE_SIZE, 3>>,
     <<Addr(5 * PAGE_SIZE), 2 * PAGE_SIZE, 1>>,
     <<Addr(6 * PAGE_SIZE), PAGE_SIZE, 7>>,
     <<Addr(5 * PAGE_SIZE), 16 * PAGE_SIZE, 3>>,
     <<Addr(0), PAGE_SIZE, 1>>,
     <<Addr(0), 0, 2>>,
     <<Addr(5 * PAGE_SIZE + 1), PAGE_SIZE, 1>>,
     <<Addr(5 * PAGE_SIZE), PAGE_SIZE, 0>>,
     <<Addr(5 * PAGE_SIZE), PAGE_SIZE, 8>>,
     <<Addr(5 * PAGE_SIZE), PAGE_SIZE, 9>>}

\* the <<start, len>> a task passes to sys_munmap
MunmapArgs ==
    {<<Addr(5 * PAGE_SIZE), PAGE_SIZE>>,
     <<Addr(5 * PAGE_SIZE), 2 * PAGE_SIZE>>,
     <<Addr(6 * PAGE_SIZE), PAGE_SIZE>>,
     <<Addr(0), 0>>}

\* the kernel before mm::init(): the allocator as StackFrameAllocator::new()
\* made it, KERNEL_SPACE not yet built, .bss cleared
Init ==
    /\ overflow_checks \in BOOLEAN
    /\ FRAME_ALLOCATOR = StackFrameAllocator_new
    /\ mem = [p \in 0..floor(MEMORY_END) |-> ZeroFrame]
    /\ panicked = FALSE
    /\ KERNEL_SPACE = None
    /\ tasks = <<>>
    /\ mmaps = 0
    /\ satp = {}
    /\ guards = {}
    /\ todo = <<>>
    /\ held = <<>>
    /\ pt = None
    /\ unmapped = None
    /\ last = [op |-> "boot", arg |-> <<>>, ret |-> None]

\* mm::init(): init_frame_allocator(), then KERNEL_SPACE is built by
\* new_kernel() when activate() first touches it
MmInit ==
    /\ ~panicked
    /\ KERNEL_SPACE = None
    /\ LET built(r) ==
               /\ FRAME_ALLOCATOR' = r.k.fa
               /\ mem' = r.k.mem
               /\ panicked' = r.k.panic
               /\ KERNEL_SPACE' = r.ms
               /\ satp' = IF r.k.panic THEN satp ELSE activate(unwrap(r.ms))
       IN  built(MemorySet_new_kernel(
                     [fa |-> StackFrameAllocator_init(FRAME_ALLOCATOR, ceil(ekernel).ret,
                                                      floor(MEMORY_END)),
                      mem |-> mem, panic |-> ceil(ekernel).panic]))
    /\ last' = [op |-> "mm_init", arg |-> <<ceil(ekernel).ret, floor(MEMORY_END)>>, ret |-> None]
    /\ UNCHANGED <<held, pt, unmapped, tasks, overflow_checks, mmaps, lockVars>>

\* the task manager creates the next task from its image
TaskNew(elf) ==
    /\ ~panicked
    /\ is_some(KERNEL_SPACE)
    /\ Len(tasks) \in AppIds
    /\ LET created(r) ==
               /\ FRAME_ALLOCATOR' = r.k.fa
               /\ mem' = r.k.mem
               /\ panicked' = r.k.panic
               /\ KERNEL_SPACE' = IF r.k.panic THEN KERNEL_SPACE ELSE Some(r.ks)
               /\ tasks' = IF r.k.panic THEN tasks ELSE Append(tasks, r.tcb)
       IN  created(TaskControlBlock_new(Kernel, unwrap(KERNEL_SPACE), elf, Len(tasks)))
    /\ last' = [op |-> "task_new", arg |-> <<Len(tasks), elf.name>>, ret |-> None]
    /\ UNCHANGED <<held, pt, unmapped, overflow_checks, mmaps, satp, lockVars>>

\* sys_mmap(start, len, port) of task i
SysMmap(i, start, len, port) ==
    /\ ~panicked
    /\ i \in 1..Len(tasks)
    /\ is_some(tasks[i])
    /\ mmaps < MaxMmaps
    /\ LET tcb == unwrap(tasks[i])
           returned(r) ==
               /\ FRAME_ALLOCATOR' = r.k.fa
               /\ mem' = r.k.mem
               /\ panicked' = r.k.panic
               /\ tasks' = IF r.k.panic THEN tasks
                           ELSE [tasks EXCEPT ![i] = Some([tcb EXCEPT !.memory_set = r.ms])]
               /\ mmaps' = IF Len(r.ms.areas) > Len(tcb.memory_set.areas)
                           THEN mmaps + 1 ELSE mmaps
               /\ last' = [op |-> "mmap", arg |-> <<i, start, len, port>>, ret |-> Some(r.ret)]
       IN  returned(mmap(Kernel, tcb.memory_set, start, len, port))
    /\ UNCHANGED <<held, pt, unmapped, KERNEL_SPACE, overflow_checks, satp, lockVars>>

\* sys_munmap(start, len) of task i
SysMunmap(i, start, len) ==
    /\ ~panicked
    /\ i \in 1..Len(tasks)
    /\ is_some(tasks[i])
    /\ LET tcb == unwrap(tasks[i])
           returned(r) ==
               /\ FRAME_ALLOCATOR' = r.k.fa
               /\ mem' = r.k.mem
               /\ panicked' = r.k.panic
               /\ tasks' = IF r.k.panic THEN tasks
                           ELSE [tasks EXCEPT ![i] = Some([tcb EXCEPT !.memory_set = r.ms])]
               /\ last' = [op |-> "munmap", arg |-> <<i, start, len>>, ret |-> Some(r.ret)]
       IN  returned(munmap(Kernel, tcb.memory_set, start, len))
    /\ UNCHANGED <<held, pt, unmapped, KERNEL_SPACE, overflow_checks, mmaps, satp, lockVars>>

\* task i exits: its address space is dropped
TaskExit(i) ==
    /\ ~panicked
    /\ i \in 1..Len(tasks)
    /\ is_some(tasks[i])
    /\ LET dropped(k2) ==
               /\ FRAME_ALLOCATOR' = k2.fa
               /\ mem' = k2.mem
               /\ panicked' = k2.panic
       IN  dropped(MemorySet_drop(Kernel, unwrap(tasks[i]).memory_set))
    /\ tasks' = [tasks EXCEPT ![i] = None]
    /\ last' = [op |-> "exit", arg |-> <<i>>, ret |-> None]
    /\ UNCHANGED <<held, pt, unmapped, KERNEL_SPACE, overflow_checks, mmaps, satp, lockVars>>

Next ==
    \/ MmInit
    \/ \E elf \in Elfs : TaskNew(elf)
    \/ \E i \in 1..Cardinality(AppIds), a \in MmapArgs : SysMmap(i, a[1], a[2], a[3])
    \/ \E i \in 1..Cardinality(AppIds), a \in MunmapArgs : SysMunmap(i, a[1], a[2])
    \/ \E i \in 1..Cardinality(AppIds) : TaskExit(i)

Spec == Init /\ [][Next]_vars

---------------------------------------------------------------------------
(* Properties of the frame allocator, checked under AllocSpec *)

\* C1: at any time at most one live FrameTracker exists per physical page
\* number: alloc never returns a page that is allocated and not yet returned.
C1_OneLiveTrackerPerPage ==
    \A i, j \in 1..Len(held) : i # j => held[i] # held[j]

\* a recycled page was handed out again while other trackers are live
C1_Witness ==
    /\ last.op = "frame_alloc"
    /\ is_some(last.ret)
    /\ Len(held) >= 2
    /\ unwrap(last.ret) < FRAME_ALLOCATOR.current - 1

\* C2: dealloc(ppn) panics and leaves the recycle stack as it was whenever
\* ppn >= current or ppn is already in the recycle stack (so a second
\* dealloc of a page with no alloc returning it in between is fatal).
C2_InvalidFreeIsFatal ==
    [][(/\ last'.op \in {"dealloc", "drop"}
        /\ \/ last'.arg[1] >= FRAME_ALLOCATOR.current
           \/ last'.arg[1] \in Range(FRAME_ALLOCATOR.recycled))
       => (panicked' /\ FRAME_ALLOCATOR'.recycled = FRAME_ALLOCATOR.recycled)]_vars

\* a page was freed a second time, and the kernel halted
C2_Witness ==
    /\ panicked
    /\ last.op = "dealloc"
    /\ last.arg[1] \in Range(FRAME_ALLOCATOR.recycled)

\* C3: alloc pops the most recently recycled page if there is one (current
\* unchanged); otherwise, if current < end, returns current and advances it;
\* otherwise returns none and changes nothing.
C3_AllocContract ==
    [][last'.op = "frame_alloc" =>
        LET fa == FRAME_ALLOCATOR
            fb == FRAME_ALLOCATOR'
            n == Len(fa.recycled)
        IN  IF n > 0
            THEN /\ last'.ret = Some(fa.recycled[n])
                 /\ fb.recycled = SubSeq(fa.recycled, 1, n - 1)
                 /\ fb.current = fa.current
                 /\ fb.end = fa.end
            ELSE IF fa.current < fa.end
            THEN /\ last'.ret = Some(fa.current)
                 /\ fb.current = fa.current + 1
                 /\ fb.recycled = fa.recycled
                 /\ fb.end = fa.end
            ELSE /\ last'.ret = None
                 /\ fb = fa]_vars

\* the pool is exhausted and alloc returned none
C3_Witness ==
    /\ last.op = "frame_alloc"
    /\ last.ret = None
    /\ FRAME_ALLOCATOR.current = FRAME_ALLOCATOR.end
    /\ FRAME_ALLOCATOR.recycled = <<>>

---------------------------------------------------------------------------
(* Properties of the page table, checked under PtSpec *)

\* the kernel state after the step
KernelNext == [fa |-> FRAME_ALLOCATOR', mem |-> mem', panic |-> panicked']

\* frames the allocator can still hand out
FreeFrames(fa) == (fa.end - fa.current) + Len(fa.recycled)

\* the entries on the path to vpn at the root and at the middle level
RootEntry(m, p, vpn) == ReadPte(m, p.root_ppn, indexes(vpn)[1])

MidEntry(m, p, vpn) ==
    ReadPte(m, PageTableEntry_ppn(RootEntry(m, p, vpn)), indexes(vpn)[2])

\* the intermediate nodes that the path to vpn still lacks
MissingNodes(m, p, vpn) ==
    IF ~is_valid(RootEntry(m, p, vpn)) THEN 2
    ELSE IF ~is_valid(MidEntry(m, p, vpn)) THEN 1
    ELSE 0

\* C6: after map(vpn, p1, f1), unmap(vpn), map(vpn, p2, f2) nothing halts and
\* translate(vpn) returns a valid entry with page number p2 and flags exactly
\* f2 plus Valid, and nothing else in it.
C6_RemapReflectsLatest ==
    (/\ last.op = "map"
     /\ is_some(unmapped)
     /\ unwrap(unmapped)[1] = last.arg[1])
    => /\ ~panicked
       /\ pt # None
       /\ LET t == PageTable_translate(Kernel, unwrap(pt), last.arg[1]).ret IN
           /\ is_some(t)
           /\ is_valid(unwrap(t))
           /\ PageTableEntry_ppn(unwrap(t)) = last.arg[2]
           /\ PageTableEntry_flags(unwrap(t)) = last.arg[3] \cup PTE_V
           /\ unwrap(t) = PageTableEntry_new(last.arg[2], last.arg[3] \cup PTE_V)

\* a page was mapped, unmapped and mapped again to another page with other flags
C6_Witness ==
    /\ last.op = "map"
    /\ ~panicked
    /\ is_some(unmapped)
    /\ unwrap(unmapped)[1] = last.arg[1]
    /\ PageTableEntry_ppn(unwrap(unmapped)[2]) # last.arg[2]
    /\ PageTableEntry_flags(unwrap(unmapped)[2]) # last.arg[3] \cup PTE_V

\* C7: map on a vpn whose leaf is valid halts the kernel and leaves the
\* translation as it was; on an invalid leaf it installs the given page and
\* flags with Valid forced on (it halts instead only when the missing
\* intermediate nodes cannot be allocated).
C7_MapContract ==
    [][last'.op = "map" =>
        LET p == unwrap(pt)
            vpn == last'.arg[1]
            old == PageTable_translate(Kernel, p, vpn).ret
            new == PageTable_translate(KernelNext, unwrap(pt'), vpn).ret
        IN  IF is_some(old) /\ is_valid(unwrap(old))
            THEN panicked' /\ new = old
            ELSE IF MissingNodes(mem, p, vpn) > FreeFrames(FRAME_ALLOCATOR)
            THEN panicked'
            ELSE /\ ~panicked'
                 /\ new = Some(PageTableEntry_new(last'.arg[2], last'.arg[3] \cup PTE_V))
                 /\ is_valid(unwrap(new))]_vars

\* map was called on a page that was mapped to something else; the kernel halted
C7_Witness ==
    /\ panicked
    /\ last.op = "map"
    /\ pt # None
    /\ LET t == PageTable_translate(Kernel, unwrap(pt), last.arg[1]).ret IN
        /\ is_some(t)
        /\ is_valid(unwrap(t))
        /\ unwrap(t) # PageTableEntry_new(last.arg[2], last.arg[3] \cup PTE_V)

\* C8: unmap(vpn) allocates no frame and adds nothing to the node list, for
\* every vpn; it halts when the leaf is not valid and otherwise clears it.
C8_UnmapCreatesNoNodes ==
    [][last'.op = "unmap" =>
        LET p == unwrap(pt)
            vpn == last'.arg[1]
            old == PageTable_translate(Kernel, p, vpn).ret
        IN  /\ FRAME_ALLOCATOR' = FRAME_ALLOCATOR
            /\ unwrap(pt').frames = p.frames
            /\ IF is_some(old) /\ is_valid(unwrap(old))
               THEN /\ ~panicked'
                    /\ PageTable_translate(KernelNext, unwrap(pt'), vpn).ret
                           = Some(PageTableEntry_empty)
               ELSE panicked']_vars

\* C9: translate(vpn) returns none if the entry at the root level or at the
\* middle level of the path to vpn is not valid.
C9_TranslateNoneOnBrokenPath ==
    pt # None =>
        \A vpn \in PtVpns :
            (\/ ~is_valid(RootEntry(mem, unwrap(pt), vpn))
             \/ ~is_valid(MidEntry(mem, unwrap(pt), vpn)))
            => PageTable_translate(Kernel, unwrap(pt), vpn).ret = None

\* translate returned none for a page whose root entry is valid and whose
\* middle entry is not
C9_Witness ==
    /\ pt # None
    /\ last.op = "translate"
    /\ last.ret = None
    /\ is_valid(RootEntry(mem, unwrap(pt), last.arg[1]))
    /\ ~is_valid(MidEntry(mem, unwrap(pt), last.arg[1]))

\* C10: translate changes no page-table entry, not the node list and not the
\* frame allocator, on the owning page table and on a from_token view.
C10_TranslateReadOnly ==
    [][last'.op \in {"translate", "translate_view"} =>
        /\ mem' = mem
        /\ pt' = pt
        /\ FRAME_ALLOCATOR' = FRAME_ALLOCATOR
        /\ panicked' = panicked]_vars

\* a view translated a page whose intermediate nodes do not exist, with
\* frames left that a creating walk would have taken
C10_Witness ==
    /\ pt # None
    /\ last.op = "translate_view"
    /\ last.ret = None
    /\ MissingNodes(mem, unwrap(pt), last.arg[1]) = 2
    /\ FreeFrames(FRAME_ALLOCATOR) >= 2

---------------------------------------------------------------------------
(* Properties of address spaces, checked under Spec *)

\* the frames the segments areas[i..] hold, in the order a drop releases them
RECURSIVE AreaFrames(_, _)
AreaFrames(areas, i) ==
    IF i > Len(areas) THEN <<>>
    ELSE MapValues(areas[i].data_frames) \o AreaFrames(areas, i + 1)

\* the frames an address space owns: its page table's nodes, then its segments' frames
FramesOf(ms) == ms.page_table.frames \o AreaFrames(ms.areas, 1)

\* the frames the live tasks tasks[i..] own
RECURSIVE TaskFrames(_)
TaskFrames(i) ==
    IF i > Len(tasks) THEN <<>>
    ELSE (IF is_some(tasks[i]) THEN FramesOf(unwrap(tasks[i]).memory_set) ELSE <<>>)
         \o TaskFrames(i + 1)

\* every frame some owner holds, once per owner that holds it
AllOwned ==
    (IF is_some(KERNEL_SPACE) THEN FramesOf(unwrap(KERNEL_SPACE)) ELSE <<>>)
    \o TaskFrames(1)

\* the frames the allocator has handed out and not got back
HandedOut(fa) == {p \in 0..(fa.current - 1) : p >= floor(ekernel) /\ p \notin Range(fa.recycled)}

\* C4: no frame has two owners, over the page-table node lists and the
\* segments' frame maps of the kernel space and of every task space; and
\* while the kernel runs, the frames that are handed out and not returned
\* are exactly the frames that have an owner.
C4_NoSharedFrame ==
    LET owned == AllOwned IN
    /\ \A i, j \in 1..Len(owned) : i # j => owned[i] # owned[j]
    /\ ~panicked => Range(owned) = HandedOut(FRAME_ALLOCATOR)

\* two tasks live beside the kernel space, the second built after the first
\* had mapped a range and unmapped it again
C4_Witness ==
    /\ ~panicked
    /\ last.op = "task_new"
    /\ Len(tasks) = 2
    /\ is_some(tasks[1])
    /\ is_some(tasks[2])
    /\ Len(unwrap(KERNEL_SPACE).areas) = 7
    /\ \E a \in Range(unwrap(tasks[1]).memory_set.areas) :
           a.vpn_range.l < a.vpn_range.r /\ a.data_frames = <<>>
    /\ \E a \in Range(unwrap(tasks[1]).memory_set.areas) :
           a.vpn_range.l >= 5 /\ a.data_frames # <<>>

\* C5: when a task exits and its address space is dropped, nothing halts,
\* and every frame of its page table and of its segments goes onto the
\* recycle stack once, in drop order, and nothing else does; so the frames
\* still handed out are those that were, less the frames of that space.
C5_DropReturnsAll ==
    [][last'.op = "exit" =>
        LET ms == unwrap(tasks[last'.arg[1]]).memory_set IN
        /\ ~panicked'
        /\ FRAME_ALLOCATOR'.recycled = FRAME_ALLOCATOR.recycled \o FramesOf(ms)
        /\ FRAME_ALLOCATOR'.current = FRAME_ALLOCATOR.current
        /\ Range(FramesOf(ms)) \subseteq HandedOut(FRAME_ALLOCATOR)
        /\ HandedOut(FRAME_ALLOCATOR') = HandedOut(FRAME_ALLOCATOR) \ Range(FramesOf(ms))]_vars

\* the only task exited after two sys_mmap calls and a sys_munmap that had
\* put a frame on the recycle stack before the root of its page table; what
\* stays handed out is what the kernel space owns
C5_Witness ==
    /\ ~panicked
    /\ last.op = "exit"
    /\ Len(tasks) = 1
    /\ mmaps = 2
    /\ FRAME_ALLOCATOR.recycled # <<>>
    /\ FRAME_ALLOCATOR.recycled[1]
           # floor(ekernel) + Len(unwrap(KERNEL_SPACE).page_table.frames)
    /\ HandedOut(FRAME_ALLOCATOR) = Range(FramesOf(unwrap(KERNEL_SPACE)))

---------------------------------------------------------------------------
(* Claims about the satp token and the page-table entry layout *)

\* the fields of a satp value: MODE in bits [63:60], ASID in [59:44], PPN in [43:0]
SatpMode(w) == FromBits(Shr(w, 60))

SatpAsid(w) == w \cap (44..59)

SatpPpn(w) == FromBits(w \cap PPN_MASK)

\* the token has mode 8 (SV39), no address-space id, and the root page number
TokenOf(p, w) ==
    /\ SatpMode(w) = 8
    /\ SatpAsid(w) = {}
    /\ SatpPpn(w) = p.root_ppn
    /\ PageTable_from_token(w).root_ppn = p.root_ppn

\* C11 as stated: the value written to satp is (3 << 62) | root_ppn, in 64 bits
C11_TokenIs3Shl62 ==
    (last.op = "mm_init" /\ ~panicked) =>
        satp = Shl(ToBits(3), 62) \cup ToBits(unwrap(KERNEL_SPACE).page_table.root_ppn)

\* C11 amended: token() is (8 << 60) | root_ppn in 64 bits, that is bit 63
\* alone above the page number (mode SV39), for the kernel's page table, whose
\* token mm::init's activate() writes to satp, and for every task's page table
C11_TokenIs8Shl60 ==
    /\ (is_some(KERNEL_SPACE) /\ ~panicked) =>
           /\ satp = PageTable_token(unwrap(KERNEL_SPACE).page_table)
           /\ satp = {63} \cup ToBits(unwrap(KERNEL_SPACE).page_table.root_ppn)
           /\ TokenOf(unwrap(KERNEL_SPACE).page_table, satp)
    /\ \A i \in 1..Len(tasks) :
           is_some(tasks[i]) =>
               TokenOf(unwrap(tasks[i]).memory_set.page_table,
                       MemorySet_token(unwrap(tasks[i]).memory_set))

C11_Witness ==
    /\ ~panicked
    /\ SatpMode(satp) = 8
    /\ Len(tasks) = 2
    /\ is_some(tasks[2])
    /\ SatpPpn(MemorySet_token(unwrap(tasks[2]).memory_set)) > SatpPpn(satp)

\* C12 as stated: a page number that fits bits [55:10] (46 bits) and a flag
\* set come back from new(ppn, flags).ppn() and .flags(), and bits [9:8] and
\* [63:56] of the entry are zero
C12_PpnIn55To10 ==
    last.op = "pte_new" =>
        (last.arg[1] \subseteq 0..45 =>
            /\ unwrap(last.ret).ppn = last.arg[1]
            /\ unwrap(last.ret).flags = last.arg[2]
            /\ unwrap(last.ret).bits \cap ({8, 9} \cup (56..63)) = {})

\* C12 amended: the page number is stored in bits [53:10] and the flag byte in
\* bits [7:0]: a page number that fits 44 bits and a flag set come back from
\* new(ppn, flags).ppn() and .flags(), the entry is valid exactly when the
\* Valid flag was given, and bits [9:8] and [63:54] of the entry are zero
C12_PpnIn53To10 ==
    last.op = "pte_new" =>
        /\ unwrap(last.ret).flags = last.arg[2]
        /\ unwrap(last.ret).is_valid = (PTE_V \subseteq last.arg[2])
        /\ unwrap(last.ret).bits \cap {8, 9} = {}
        /\ unwrap(last.ret).bits \cap (10..63) = {b + 10 : b \in last.arg[1]}
        /\ last.arg[1] \subseteq 0..43 =>
               /\ unwrap(last.ret).ppn = last.arg[1]
               /\ unwrap(last.ret).bits \cap (54..63) = {}

C12_Witness ==
    /\ last.op = "pte_new"
    /\ last.arg[1] = {0, 9, 43}
    /\ last.arg[2] = PTE_V \cup PTE_D
    /\ unwrap(last.ret).bits = {0, 7, 10, 19, 53}

---------------------------------------------------------------------------
(* Claims about sys_mmap and sys_munmap.  A step of sys_mmap has            *)
(* last'.arg = <<task, start, len, port>> and one of sys_munmap             *)
(* last'.arg = <<task, start, len>>.                                        *)

\* port is 0 in its low three bits or has a bit above bit 2
BadPort(port) == (port % 8 = 0) \/ (port \div 8 # 0)

\* the memory set of task i before and after the step
MsOf(i) == unwrap(tasks[i]).memory_set

MsOfNext(i) == unwrap(tasks'[i]).memory_set

PagesOf(start, len) == start[1]..(start[1] + ((len + PAGE_SIZE - 1) \div PAGE_SIZE) - 1)

\* vpn has a valid leaf in the page table of ms, in memory m
Present(m, ms, vpn) ==
    LET found(t) == is_some(t) /\ is_valid(unwrap(t))
    IN  found(MemorySet_translate([fa |-> FRAME_ALLOCATOR, mem |-> m, panic |-> FALSE], ms, vpn))

\* the flags of the leaf of vpn in the page table of ms, in memory m
LeafFlags(m, ms, vpn) ==
    PageTableEntry_flags(
        unwrap(MemorySet_translate([fa |-> FRAME_ALLOCATOR, mem |-> m, panic |-> FALSE], ms, vpn)))

\* the flags mmap is to give a page: Valid, User, and R/W/X by port bits 0/1/2
PortFlags(port) ==
    PTE_V \cup PTE_U
    \cup (IF port % 2 = 1 THEN PTE_R ELSE {})
    \cup (IF (port \div 2) % 2 = 1 THEN PTE_W ELSE {})
    \cup (IF (port \div 4) % 2 = 1 THEN PTE_X ELSE {})

\* C14: for a port in 1..7, a page-aligned start and a range of at least one
\* page none of which is present in the page table (whether or not its
\* page-table nodes exist), with free frames for its pages and two nodes,
\* mmap returns 0 and every page of the range then has a valid leaf whose
\* flags are exactly Valid, User and R/W/X as the port selects
C14_MmapMapsFreeRange ==
    [][(/\ last'.op = "mmap"
        /\ ~BadPort(last'.arg[4])
        /\ last'.arg[2][2] = 0
        /\ last'.arg[3] > 0
        /\ \A vpn \in PagesOf(last'.arg[2], last'.arg[3]) : ~Present(mem, MsOf(last'.arg[1]), vpn)
        /\ FreeFrames(FRAME_ALLOCATOR) >= Cardinality(PagesOf(last'.arg[2], last'.arg[3])) + 2) =>
           /\ last'.ret = Some(0)
           /\ ~panicked'
           /\ \A vpn \in PagesOf(last'.arg[2], last'.arg[3]) :
                  /\ Present(mem', MsOfNext(last'.arg[1]), vpn)
                  /\ LeafFlags(mem', MsOfNext(last'.arg[1]), vpn) = PortFlags(last'.arg[4])]_vars

\* C15: when a page of the requested range (page-aligned start) is already
\* present in the page table, mmap returns a negative value, the kernel does
\* not halt, and no translation, segment or frame ownership changes
C15_MmapRejectsOverlap ==
    [][(/\ last'.op = "mmap"
        /\ last'.arg[2][2] = 0
        /\ \E vpn \in PagesOf(last'.arg[2], last'.arg[3]) : Present(mem, MsOf(last'.arg[1]), vpn)) =>
           /\ unwrap(last'.ret) < 0
           /\ ~panicked'
           /\ tasks' = tasks
           /\ FRAME_ALLOCATOR' = FRAME_ALLOCATOR
           /\ mem' = mem]_vars

\* C16: when the allocator has fewer free frames than the range (page-aligned
\* start, allowed port) has pages, mmap returns a negative value, the kernel
\* does not halt, and the set of allocated frames is as before
C16_MmapExhaustionRecoverable ==
    [][(/\ last'.op = "mmap"
        /\ ~BadPort(last'.arg[4])
        /\ last'.arg[2][2] = 0
        /\ FreeFrames(FRAME_ALLOCATOR) < Cardinality(PagesOf(last'.arg[2], last'.arg[3]))) =>
           /\ unwrap(last'.ret) < 0
           /\ ~panicked'
           /\ HandedOut(FRAME_ALLOCATOR') = HandedOut(FRAME_ALLOCATOR)]_vars

\* the segments of ms that hold a frame for every one of their pages, at
\* least one
LiveAreas(ms) ==
    {j \in 1..Len(ms.areas) :
        /\ ms.areas[j].vpn_range.l < ms.areas[j].vpn_range.r
        /\ DOMAIN ms.areas[j].data_frames = ms.areas[j].vpn_range.l..(ms.areas[j].vpn_range.r - 1)}

\* the range of a munmap request is exactly the pages of the live segment j
ExactlyArea(ms, j, start, len) ==
    /\ start[2] = 0
    /\ len > 0
    /\ PagesOf(start, len) = ms.areas[j].vpn_range.l..(ms.areas[j].vpn_range.r - 1)

\* C17, first half: when the range of munmap is exactly a segment that is
\* mapped, munmap returns 0, the kernel does not halt, no page of the range
\* has a valid translation afterwards and the frames of the segment are back
\* with the allocator
C17_MunmapExactRange ==
    [][last'.op = "munmap" =>
        \A j \in LiveAreas(MsOf(last'.arg[1])) :
            ExactlyArea(MsOf(last'.arg[1]), j, last'.arg[2], last'.arg[3]) =>
                /\ last'.ret = Some(0)
                /\ ~panicked'
                /\ \A vpn \in PagesOf(last'.arg[2], last'.arg[3]) :
                       ~Present(mem', MsOfNext(last'.arg[1]), vpn)
                /\ Range(MapValues(MsOf(last'.arg[1]).areas[j].data_frames))
                       \cap HandedOut(FRAME_ALLOCATOR') = {}]_vars

\* C18: a munmap that follows a successful munmap of the same range of at
\* least one page by the same task returns a negative value and does not
\* halt the kernel
C18_SecondMunmapFails ==
    [][(/\ last.op = "munmap"
        /\ last.ret = Some(0)
        /\ ~panicked
        /\ last.arg[3] > 0
        /\ last'.op = "munmap"
        /\ last'.arg = last.arg) =>
           /\ unwrap(last'.ret) < 0
           /\ ~panicked']_vars

---------------------------------------------------------------------------
(* Claims about from_elf.  A step of task creation has                      *)
(* last.arg = <<app_id, name of the image>>; the task is tasks[app_id + 1]. *)

ElfByName(n) == CHOOSE e \in Elfs : e.name = n

\* the loadable program headers of an image
LoadHeaders(elf) == {j \in 1..Len(elf.ph) : elf.ph[j].type = "Load"}

\* the first page at or above the end of a program header's memory
EndPage(ph) ==
    LET end_va == AddrAdd(ph.virtual_addr, ph.mem_size)
    IN  IF end_va[2] = 0 THEN end_va[1] ELSE end_va[1] + 1

\* the highest ending page over the loadable headers
HighestEnd(elf) ==
    CHOOSE e \in {EndPage(elf.ph[j]) : j \in LoadHeaders(elf)} :
        \A j \in LoadHeaders(elf) : EndPage(elf.ph[j]) <= e

\* the address space from_elf built in the last step
BuiltMs == unwrap(tasks[last.arg[1] + 1]).memory_set

\* C19: in the address space from_elf built, the page at the highest end over
\* all loadable segments is unmapped, the USER_STACK_SIZE bytes of pages above
\* it are mapped with exactly Valid, Read, Write and User, and the stack top
\* returned is the end of that range
C19_StackAboveHighestEnd ==
    (last.op = "task_new" /\ ~panicked) =>
        LET guard == HighestEnd(ElfByName(last.arg[2])) IN
        /\ ~Present(mem, BuiltMs, guard)
        /\ \A vpn \in (guard + 1)..(guard + (USER_STACK_SIZE \div PAGE_SIZE)) :
               /\ Present(mem, BuiltMs, vpn)
               /\ LeafFlags(mem, BuiltMs, vpn) = PTE_V \cup PTE_R \cup PTE_W \cup PTE_U
        /\ unwrap(tasks[last.arg[1] + 1]).base_size
               = <<guard + 1 + (USER_STACK_SIZE \div PAGE_SIZE), 0>>

\* the pages of a program header's memory
PagesOfHeader(ph) == ph.virtual_addr[1]..(EndPage(ph) - 1)

\* the leaf flags a program header's flags ask for
HeaderFlags(ph) ==
    PTE_V \cup PTE_U
    \cup (IF "R" \in ph.flags THEN PTE_R ELSE {})
    \cup (IF "W" \in ph.flags THEN PTE_W ELSE {})
    \cup (IF "X" \in ph.flags THEN PTE_X ELSE {})

\* the leaf of vpn in the page table of ms
LeafOf(m, ms, vpn) ==
    unwrap(MemorySet_translate([fa |-> FRAME_ALLOCATOR, mem |-> m, panic |-> FALSE], ms, vpn))

\* C20: in the address space from_elf built, every page of every loadable
\* segment has a valid leaf whose flags are Valid, User and the R/W/X of its
\* program header; the page of the entry point is executable, and the pages
\* of a segment that is readable and writable only are writable and not
\* executable
C20_SegmentPermissions ==
    (last.op = "task_new" /\ ~panicked) =>
        LET elf == ElfByName(last.arg[2]) IN
        /\ \A j \in LoadHeaders(elf) : \A vpn \in PagesOfHeader(elf.ph[j]) :
               /\ Present(mem, BuiltMs, vpn)
               /\ LeafFlags(mem, BuiltMs, vpn) = HeaderFlags(elf.ph[j])
               /\ elf.ph[j].flags = {"R", "W"} =>
                      /\ writable(LeafOf(mem, BuiltMs, vpn))
                      /\ ~executable(LeafOf(mem, BuiltMs, vpn))
        /\ Present(mem, BuiltMs, elf.entry[1])
        /\ executable(LeafOf(mem, BuiltMs, elf.entry[1]))

C20_Witness ==
    /\ last.op = "task_new"
    /\ ~panicked
    /\ last.arg = <<1, "ElfB">>
    /\ is_some(tasks[1])
    /\ writable(LeafOf(mem, BuiltMs, 516))
    /\ executable(LeafOf(mem, BuiltMs, 512))

---------------------------------------------------------------------------
(* Claims about the kernel address space *)

\* the pages of the region [start_va, end_va) of the kernel image
RegionPages(start_va, end_va) == floor(start_va)..(ceil(end_va).ret - 1)

\* vpn is mapped to the frame of the same number with exactly these flags
IdenticalWith(m, ms, vpn, flags) ==
    /\ Present(m, ms, vpn)
    /\ PageTableEntry_ppn(LeafOf(m, ms, vpn)) = vpn
    /\ LeafFlags(m, ms, vpn) = PTE_V \cup flags

\* C21: in the kernel address space new_kernel() built, every page of .text
\* is mapped to itself with Read and Execute, every page of .rodata with Read
\* only, and every page of .data, .bss and the memory from ekernel to
\* MEMORY_END with Read and Write; none is writable-and-executable or has
\* the User bit
C21_KernelSections ==
    (is_some(KERNEL_SPACE) /\ ~panicked) =>
        /\ \A vpn \in RegionPages(stext, etext) :
               IdenticalWith(mem, unwrap(KERNEL_SPACE), vpn, PTE_R \cup PTE_X)
        /\ \A vpn \in RegionPages(srodata, erodata) :
               IdenticalWith(mem, unwrap(KERNEL_SPACE), vpn, PTE_R)
        /\ \A vpn \in RegionPages(sdata, edata) \cup RegionPages(sbss_with_stack, ebss)
                      \cup RegionPages(ekernel, MEMORY_END) :
               IdenticalWith(mem, unwrap(KERNEL_SPACE), vpn, PTE_R \cup PTE_W)

C21_Witness ==
    /\ last.op = "task_new"
    /\ ~panicked
    /\ Len(unwrap(KERNEL_SPACE).areas) = 6
    /\ ~writable(LeafOf(mem, unwrap(KERNEL_SPACE), floor(srodata)))
    /\ ~executable(LeafOf(mem, unwrap(KERNEL_SPACE), floor(MEMORY_END) - 1))

---------------------------------------------------------------------------
(* Claims about frames, addresses and the allocator *)

\* every byte of frame ppn is 0, read as bytes or as page-table entries
ZeroFilled(m, ppn) ==
    /\ m[ppn] = ZeroFrame
    /\ \A off \in {0, 1, PAGE_SIZE - 1} : ReadByte(m, ppn, off) = 0
    /\ \A idx \in 0..511 : ReadPte(m, ppn, idx) = {} /\ ~is_valid(ReadPte(m, ppn, idx))

\* C22: the frame frame_alloc returns is zero-filled, also when it comes from
\* the recycle stack and its last owner wrote to it, so that all 512 entries
\* of a frame taken as a page-table node are invalid
C22_FrameZeroAtCreation ==
    (last.op = "frame_alloc" /\ is_some(last.ret)) => ZeroFilled(mem, unwrap(last.ret))

C22_Witness ==
    /\ last.op = "frame_alloc"
    /\ is_some(last.ret)
    /\ unwrap(last.ret) < FRAME_ALLOCATOR.current - 1
    /\ ZeroFilled(mem, unwrap(last.ret))
    /\ \E i \in 1..Len(held) : is_valid(ReadPte(mem, held[i], 511))

\* C23: a page number below 2^52, which every 27-bit virtual and every
\* 44-bit physical page number is, converted to an address and back, by
\* floor() or by the conversion without rounding, is the page number again,
\* and the address between has page offset 0
C23_PageAddrRoundTrip ==
    (last.op = "page" /\ last.arg[1] \subseteq 0..(USIZE_BITS - PAGE_SIZE_BITS - 1)) =>
        /\ unwrap(last.ret).floor = last.arg[1]
        /\ unwrap(last.ret).page_offset = {}
        /\ ~unwrap(last.ret).into.panic
        /\ unwrap(last.ret).into.ret = last.arg[1]
        /\ unwrap(last.ret).addr = {b + PAGE_SIZE_BITS : b \in last.arg[1]}

C23_Witness ==
    /\ last.op = "page"
    /\ last.arg[1] = {0, 9, 26, 43}
    /\ unwrap(last.ret).addr = {12, 21, 38, 55}
    /\ unwrap(last.ret).into.ret = {0, 9, 26, 43}

---------------------------------------------------------------------------
(* Shape of the frame allocator, checked under AllocSpec *)

\* C24: after init(low, high), alloc and dealloc keep every page on the
\* recycle stack at or above low and below current, keep the stack free of
\* duplicates, keep low <= current <= end, and alloc only returns pages of
\* [low, high).
C24_AllocatorInvariant ==
    LET fa == FRAME_ALLOCATOR IN
    /\ \A i \in 1..Len(fa.recycled) : PoolLow <= fa.recycled[i] /\ fa.recycled[i] < fa.current
    /\ \A i, j \in 1..Len(fa.recycled) : i # j => fa.recycled[i] # fa.recycled[j]
    /\ PoolLow <= fa.current
    /\ fa.current <= fa.end
    /\ fa.end = PoolHigh
    /\ (last.op = "frame_alloc" /\ is_some(last.ret)) =>
            (PoolLow <= unwrap(last.ret) /\ unwrap(last.ret) < PoolHigh)

\* the whole pool was handed out, two pages came back, and one of them was
\* handed out again
C24_Witness ==
    /\ last.op = "frame_alloc"
    /\ is_some(last.ret)
    /\ FRAME_ALLOCATOR.current = FRAME_ALLOCATOR.end
    /\ Len(FRAME_ALLOCATOR.recycled) >= 1
    /\ unwrap(last.ret) < FRAME_ALLOCATOR.current - 1

---------------------------------------------------------------------------
(* Shape of the page table, checked under PtSpec *)

\* the indices of the valid entries of a node
ValidIdx(m, node) == {i \in DOMAIN m[node].pte : is_valid(m[node].pte[i])}

\* the nodes that the valid entries of the root name
MidNodes(m, p) == {PageTableEntry_ppn(m[p.root_ppn].pte[i]) : i \in ValidIdx(m, p.root_ppn)}

\* the non-leaf entries: <<node, index>> of every valid entry of the root
\* and of the nodes below it
ParentEntries(m, p) ==
    UNION {{<<n, i>> : i \in ValidIdx(m, n)} : n \in {p.root_ppn} \cup MidNodes(m, p)}

\* the non-leaf entries that name the node f
ParentsOf(m, p, f) ==
    {e \in ParentEntries(m, p) : PageTableEntry_ppn(m[e[1]].pte[e[2]]) = f}

\* C25: after any map and unmap calls every valid non-leaf entry carries the
\* Valid flag and no other, names a frame of this table's node list, and
\* every node but the root is named by exactly one such entry (the root by
\* none): the nodes form a tree under root_ppn.
C25_NodesFormTree ==
    pt # None =>
        LET p == unwrap(pt)
            owned == Range(p.frames)
        IN  /\ p.root_ppn \in owned
            /\ \A i, j \in 1..Len(p.frames) : i # j => p.frames[i] # p.frames[j]
            /\ \A e \in ParentEntries(mem, p) :
                /\ PageTableEntry_flags(mem[e[1]].pte[e[2]]) = PTE_V
                /\ PageTableEntry_ppn(mem[e[1]].pte[e[2]]) \in owned
            /\ ParentsOf(mem, p, p.root_ppn) = {}
            /\ \A f \in owned \ {p.root_ppn} : Cardinality(ParentsOf(mem, p, f)) = 1

\* two pages under one middle node are mapped, each through its own
\* bottom node, and one page has been unmapped since
C25_Witness ==
    /\ pt # None
    /\ ~panicked
    /\ last.op = "map"
    /\ is_some(unmapped)
    /\ Len(unwrap(pt).frames) = 4
    /\ \E n \in MidNodes(mem, unwrap(pt)) : Cardinality(ValidIdx(mem, n)) = 2

---------------------------------------------------------------------------
(* Rounding of addresses, checked under AddrSpec *)

\* C26: for every address a, 0 and page-aligned ones included, floor(a) is
\* the largest page p with p * 4096 <= a, ceil(a) is the smallest page p
\* with p * 4096 >= a and is computed with no underflow or overflow, and
\* the conversion without rounding halts exactly when the offset of a in
\* its page is not 0.
C26_RoundingTotal ==
    last.op = "addr" =>
        LET a == last.arg[1]
            r == unwrap(last.ret)
        IN  /\ r.floor \subseteq 0..(USIZE_BITS - PAGE_SIZE_BITS - 1)
            /\ {b + PAGE_SIZE_BITS : b \in r.floor} \cup r.page_offset = a
            /\ r.page_offset \subseteq 0..(PAGE_SIZE_BITS - 1)
            /\ ~r.ceil.overflow
            /\ ~r.ceil.panic
            /\ r.ceil.ret = IF r.page_offset = {} THEN r.floor ELSE WordAddBit(r.floor, 0).ret
            /\ r.into.panic <=> (r.page_offset # {})

---------------------------------------------------------------------------
(* Loading of segment bytes, checked under Spec *)

\* the frame behind the n-th page of a program header's segment
SegmentFrame(m, ms, ph, n) == PageTableEntry_ppn(LeafOf(m, ms, ph.virtual_addr[1] + n))

\* the frames behind the loadable segments of an image
SegmentFrames(m, ms, elf) ==
    UNION {{SegmentFrame(m, ms, elf.ph[j], n) :
                n \in 0..(Cardinality(PagesOfHeader(elf.ph[j])) - 1)} : j \in LoadHeaders(elf)}

\* the offsets read in each frame: both ends of the frame and the places
\* around the ends of the file bytes of the images
CheckedOffsets == {0, 1, 49, 50, 51, 99, 100, 101, PAGE_SIZE - 1}

\* what the n-th frame of a segment holds once the segment's file bytes,
\* elf.input[ph.offset .. ph.offset + ph.file_size], are copied in: byte i
\* of them at offset i % 4096 of frame i / 4096, 0 everywhere else
LoadedFrame(m, f, name, ph, n) ==
    /\ m[f].data = IF ph.file_size > n * PAGE_SIZE
                   THEN <<<<name, ph.offset + n * PAGE_SIZE,
                            Min(PAGE_SIZE, ph.file_size - n * PAGE_SIZE)>>>>
                   ELSE <<>>
    /\ \A off \in CheckedOffsets :
        ReadByte(m, f, off) = IF n * PAGE_SIZE + off < ph.file_size
                              THEN <<name, ph.offset + n * PAGE_SIZE + off>>
                              ELSE 0

\* C27: copy_data on a Framed segment, with data no longer than the segment,
\* puts byte i of data at offset i mod 4096 of the frame behind the
\* segment's (i div 4096)-th page, leaves the other bytes of the segment's
\* frames 0, writes to no frame outside the segment and ends for every
\* length of data, 0 included.
C27_CopyDataPlacement ==
    [][(last'.op = "task_new" /\ ~panicked') =>
        LET ms == unwrap(tasks'[last'.arg[1] + 1]).memory_set
            elf == ElfByName(last'.arg[2])
            fresh == HandedOut(FRAME_ALLOCATOR') \ HandedOut(FRAME_ALLOCATOR)
        IN  /\ \A j \in LoadHeaders(elf) :
                \A n \in 0..(Cardinality(PagesOfHeader(elf.ph[j])) - 1) :
                    LoadedFrame(mem', SegmentFrame(mem', ms, elf.ph[j], n), elf.name, elf.ph[j], n)
            \* the trap context is written by TaskControlBlock::new afterwards
            /\ \A ppn \in DOMAIN mem \ (SegmentFrames(mem', ms, elf)
                                          \cup {unwrap(tasks'[last'.arg[1] + 1]).trap_cx_ppn}) :
                mem'[ppn].data = IF ppn \in fresh THEN <<>> ELSE mem[ppn].data]_vars

\* an image was loaded that has a segment with no file bytes, one of 100
\* bytes and one of exactly a page, after one whose bytes spill 50 bytes
\* into a second page
C27_Witness ==
    /\ last.op = "task_new"
    /\ ~panicked
    /\ last.arg = <<1, "ElfB">>
    /\ Len(tasks) = 2
    /\ ReadByte(mem, SegmentFrame(mem, BuiltMs, ElfB.ph[3], 0), 99) = <<"ElfB", PAGE_SIZE + 99>>
    /\ ReadByte(mem, SegmentFrame(mem, BuiltMs, ElfB.ph[4], 0), PAGE_SIZE - 1) = <<"ElfB", PAGE_SIZE - 1>>
    /\ mem[SegmentFrame(mem, BuiltMs, ElfB.ph[2], 0)].data = <<>>
    /\ \E f \in DOMAIN mem : mem[f].data = <<<<"ElfA", 64 + PAGE_SIZE, 50>>>>

---------------------------------------------------------------------------
(* Guards of the allocator and of the kernel space, checked under LockSpec *)

\* C28: no call path asks for the exclusive borrow of the frame allocator
\* or for the KERNEL_SPACE lock while it holds that guard, and no guard
\* outlives its call path: nothing locks itself out or panics on a second
\* borrow.
C28_NoGuardReacquired ==
    /\ (todo # <<>> /\ Head(todo)[1] = "acquire") => Head(todo)[2] \notin guards
    /\ todo = <<>> => guards = {}
    /\ last.op = "acquire" => ~panicked

\* TaskControlBlock::new took a frame for the kernel stack under the
\* KERNEL_SPACE lock, let the lock go, and is about to lock again for the
\* token
C28_Witness ==
    /\ ~panicked
    /\ last.op = "release"
    /\ last.arg = <<"KERNEL_SPACE">>
    /\ Len(held) >= 2
    /\ guards = {}
    /\ todo # <<>>
    /\ Head(todo) = <<"acquire", "KERNEL_SPACE">>

---------------------------------------------------------------------------
(* mmap and munmap in alternation, checked under Spec *)

\* the step is made by the same task on the same range as the last one
SameRangeAgain ==
    /\ last'.arg[1] = last.arg[1]
    /\ last'.arg[2] = last.arg[2]
    /\ last'.arg[3] = last.arg[3]
    /\ last.arg[2][2] = 0
    /\ last.arg[3] > 0

\* C29: mmap and munmap of the same aligned range can alternate without
\* end on one address space: the munmap that follows a successful mmap
\* returns 0, leaves no page of the range translated and none of its frames
\* allocated; the mmap that follows a successful munmap returns 0 and
\* leaves every page of the range translated; the kernel never halts.
C29_MmapMunmapAlternate ==
    [][/\ (/\ last.op = "mmap"
           /\ last.ret = Some(0)
           /\ ~panicked
           /\ last'.op = "munmap"
           /\ SameRangeAgain) =>
              /\ last'.ret = Some(0)
              /\ ~panicked'
              /\ \A vpn \in PagesOf(last.arg[2], last.arg[3]) :
                    /\ ~Present(mem', MsOfNext(last.arg[1]), vpn)
                    /\ PageTableEntry_ppn(LeafOf(mem, MsOf(last.arg[1]), vpn))
                           \notin HandedOut(FRAME_ALLOCATOR')
       /\ (/\ last.op = "munmap"
           /\ last.ret = Some(0)
           /\ ~panicked
           /\ last'.op = "mmap"
           /\ ~BadPort(last'.arg[4])
           /\ SameRangeAgain) =>
              /\ last'.ret = Some(0)
              /\ ~panicked'
              /\ \A vpn \in PagesOf(last.arg[2], last.arg[3]) :
                    Present(mem', MsOfNext(last.arg[1]), vpn)]_vars

---------------------------------------------------------------------------
(* A munmap that fails, checked under Spec *)

\* C30: a munmap that returns a negative value leaves the address space as
\* it was: no translation is removed and no frame goes back to the
\* allocator, also when some segments lie inside the range and the range
\* is not exactly covered.
C30_FailedMunmapChangesNothing ==
    [][(/\ last'.op = "munmap"
        /\ ~panicked'
        /\ unwrap(last'.ret) < 0) =>
           /\ \A vpn \in PagesOf(last'.arg[2], last'.arg[3]) :
                  Present(mem, MsOf(last'.arg[1]), vpn)
                      => Present(mem', MsOfNext(last'.arg[1]), vpn)
           /\ HandedOut(FRAME_ALLOCATOR') = HandedOut(FRAME_ALLOCATOR)
           /\ tasks' = tasks
           /\ mem' = mem]_vars

=============================================================================
